---- MODULE Spec2Model ----
(***************************************************************************)
(* Page map engine of the browser tools: the in-page collector, the        *)
(* element model, the deduplicator, the pattern compressor and the         *)
(* formatter of page_parser.py, driven by generate_page_map of             *)
(* seleniumbase_browser.py; the action API of the browser                  *)
(* (base_browser.py, seleniumbase_browser.py); and the session registry of *)
(* browser_toolset.py.                                                     *)
(*                                                                         *)
(* Strings are TLA+ strings; TLC evaluates Len, SubSeq, Tail and \o on     *)
(* them, so lengths, prefixes and substrings are computed as the code      *)
(* computes them.                                                          *)
(***************************************************************************)
EXTENDS Integers, Sequences, FiniteSets, TLC

VARIABLES dom, writer, last, streak, muts, act, ts, calc

vars == <<dom, writer, last, streak, muts, act, ts, calc>>

\* the browser's action API, the toolset and the function under study,
\* which the page map leaves alone
others == <<act, ts, calc>>

(***************************************************************************)
(* Bounds of the model.                                                    *)
(***************************************************************************)
MaxMuts == 2

(***************************************************************************)
(* String helpers (JavaScript / Python string primitives).                 *)
(***************************************************************************)
Null == "<null>"

\* what a call gave its caller: a value it returned, or an exception
NoResult == [kind |-> "none", value |-> "", error |-> ""]

\* no action call made yet on a browser that is not started
NoAct ==
  [driver |-> FALSE, last_clicked_selector |-> Null, op |-> "none",
   selector |-> Null, ref |-> Null, started |-> FALSE, result |-> NoResult]

\* the toolset before its construction
NoToolset == [constructed |-> FALSE]

\* no function of the parser applied on its own
NoCalc == [fn |-> "none"]

Char(s, i) == SubSeq(s, i, i)

OrEmpty(v) == IF v = Null THEN "" ELSE v

StartsWith(s, p) == Len(p) <= Len(s) /\ SubSeq(s, 1, Len(p)) = p

\* p occurs in s at position i
MatchAt(s, i, p) == i + Len(p) - 1 <= Len(s) /\ SubSeq(s, i, i + Len(p) - 1) = p

Contains(s, sub) ==
  \E i \in 1..(Len(s) - Len(sub) + 1) : SubSeq(s, i, i + Len(sub) - 1) = sub

Digits == {"0", "1", "2", "3", "4", "5", "6", "7", "8", "9"}

LowerLetters ==
  {"a", "b", "c", "d", "e", "f", "g", "h", "i", "j", "k", "l", "m",
   "n", "o", "p", "q", "r", "s", "t", "u", "v", "w", "x", "y", "z"}

UpperLetters ==
  {"A", "B", "C", "D", "E", "F", "G", "H", "I", "J", "K", "L", "M",
   "N", "O", "P", "Q", "R", "S", "T", "U", "V", "W", "X", "Y", "Z"}

Alnum == Digits \cup LowerLetters \cup UpperLetters

LowerChar(c) ==
  CASE c = "A" -> "a" [] c = "B" -> "b" [] c = "C" -> "c" [] c = "D" -> "d"
    [] c = "E" -> "e" [] c = "F" -> "f" [] c = "G" -> "g" [] c = "H" -> "h"
    [] c = "I" -> "i" [] c = "J" -> "j" [] c = "K" -> "k" [] c = "L" -> "l"
    [] c = "M" -> "m" [] c = "N" -> "n" [] c = "O" -> "o" [] c = "P" -> "p"
    [] c = "Q" -> "q" [] c = "R" -> "r" [] c = "S" -> "s" [] c = "T" -> "t"
    [] c = "U" -> "u" [] c = "V" -> "v" [] c = "W" -> "w" [] c = "X" -> "x"
    [] c = "Y" -> "y" [] c = "Z" -> "z" [] OTHER -> c

RECURSIVE Lower(_)
Lower(s) == IF s = "" THEN "" ELSE LowerChar(Char(s, 1)) \o Lower(Tail(s))

\* str.isdigit(): non-empty and every character a digit
IsDigit(s) == s # "" /\ \A i \in 1..Len(s) : Char(s, i) \in Digits

RECURSIVE TrimLeft(_)
TrimLeft(s) == IF s # "" /\ Char(s, 1) = " " THEN TrimLeft(Tail(s)) ELSE s

RECURSIVE TrimRight(_)
TrimRight(s) ==
  IF s # "" /\ Char(s, Len(s)) = " "
  THEN TrimRight(SubSeq(s, 1, Len(s) - 1)) ELSE s

\* String.prototype.trim / str.strip
Trim(s) == TrimRight(TrimLeft(s))

\* s.replace(/\s+/g, ' ')
RECURSIVE CollapseSpaces(_)
CollapseSpaces(s) ==
  IF Len(s) < 2 THEN s
  ELSE IF Char(s, 1) = " " /\ Char(s, 2) = " " THEN CollapseSpaces(Tail(s))
  ELSE Char(s, 1) \o CollapseSpaces(Tail(s))

\* s.split(' ')
RECURSIVE SplitFrom(_, _, _)
SplitFrom(s, i, cur) ==
  IF i > Len(s) THEN <<cur>>
  ELSE IF Char(s, i) = " " THEN <<cur>> \o SplitFrom(s, i + 1, "")
  ELSE SplitFrom(s, i + 1, cur \o Char(s, i))

Split(s) == SplitFrom(s, 1, "")

RECURSIVE Join(_, _)
Join(parts, sep) ==
  IF parts = <<>> THEN ""
  ELSE IF Len(parts) = 1 THEN parts[1]
  ELSE parts[1] \o sep \o Join(Tail(parts), sep)

DigitStr == <<"0", "1", "2", "3", "4", "5", "6", "7", "8", "9">>

\* decimal rendering of a non-negative integer (String(n) / str(n))
RECURSIVE ToStr(_)
ToStr(n) ==
  IF n < 10 THEN DigitStr[n + 1]
  ELSE ToStr(n \div 10) \o DigitStr[(n % 10) + 1]

Prefix(s, n) == IF Len(s) > n THEN SubSeq(s, 1, n) ELSE s

(***************************************************************************)
(* The live DOM.  dom is the sequence of the elements below <body> in      *)
(* document order (the order of getElementsByTagName("*")); parent = 0 is  *)
(* <body>.  attrs is the element's attribute list in DOM order, the        *)
(* data-agent-ref marker included.  bad marks an element whose record the  *)
(* driver hands back in a shape PageElement rejects.                       *)
(***************************************************************************)
MarkerAttr == "data-agent-ref"

Attr(n, v) == [name |-> n, value |-> v]

Node(tag, parent, text, attrs) ==
  [tag |-> tag, parent |-> parent, text |-> text, attrs |-> attrs,
   display |-> "block", visibility |-> "visible", w |-> 1, h |-> 1,
   cursor |-> "auto", bad |-> FALSE]

hasAttribute(elem, name) ==
  \E i \in 1..Len(elem.attrs) : elem.attrs[i].name = name

hasMarker(elem) == hasAttribute(elem, MarkerAttr)

getAttribute(elem, name) ==
  IF hasAttribute(elem, name)
  THEN elem.attrs[CHOOSE i \in 1..Len(elem.attrs) : elem.attrs[i].name = name].value
  ELSE Null

setAttribute(elem, name, value) ==
  IF hasAttribute(elem, name)
  THEN [elem EXCEPT !.attrs =
          [i \in 1..Len(elem.attrs) |->
             IF elem.attrs[i].name = name THEN Attr(name, value) ELSE elem.attrs[i]]]
  ELSE [elem EXCEPT !.attrs = Append(elem.attrs, Attr(name, value))]

NotMarker(a) == a.name # MarkerAttr

removeAttribute(elem) == [elem EXCEPT !.attrs = SelectSeq(elem.attrs, NotMarker)]

\* element.classList: the non-empty tokens of the class attribute
classList(elem) ==
  LET toks == Split(OrEmpty(getAttribute(elem, "class")))
  IN {toks[i] : i \in {j \in 1..Len(toks) : toks[j] # ""}}

\* parent.children: the child elements of p in document order
Children(d, p) ==
  SelectSeq([i \in 1..Len(d) |-> i], LAMBDA i : d[i].parent = p)

RECURSIVE IsAncestor(_, _, _)
IsAncestor(d, a, n) ==
  IF n = 0 THEN FALSE
  ELSE d[n].parent = a \/ IsAncestor(d, a, d[n].parent)

\* elem.textContent: the element's text followed by its descendants' text
textContent(d, n) ==
  LET F[i \in n..Len(d) + 1] ==
        IF i > Len(d) THEN ""
        ELSE IF i = n \/ IsAncestor(d, n, i) THEN d[i].text \o F[i + 1]
        ELSE ""
  IN F[n]

(***************************************************************************)
(* In-page collector: the helper functions of the script.                  *)
(***************************************************************************)
staticTags ==
  {"div", "p", "h1", "h2", "h3", "h4", "h5", "h6", "li", "th", "td", "tr",
   "table", "label", "caption", "span", "strong", "b", "em", "i", "u",
   "small", "mark", "dl", "dt", "dd"}

interactiveTags == {"a", "button", "input", "select", "textarea"}

HiddenContainerClasses ==
  {"multiselect__content", "multiselect__content-wrapper", "dropdown-menu",
   "select-dropdown"}

\* the while loop over parentElement: at most 3 ancestors, stopping at <body>
RECURSIVE hasHiddenContainer(_, _, _)
hasHiddenContainer(d, p, depth) ==
  IF p = 0 \/ depth >= 3 THEN FALSE
  ELSE \/ classList(d[p]) \cap HiddenContainerClasses # {}
       \/ getAttribute(d[p], "role") \in {"listbox", "menu"}
       \/ hasHiddenContainer(d, d[p].parent, depth + 1)

isElementVisible(d, n) ==
  LET elem == d[n]
      isHiddenInteractive ==
        \/ classList(elem) \cap {"multiselect__option", "multiselect__element"} # {}
        \/ hasAttribute(elem, "data-select")
        \/ hasAttribute(elem, "data-option")
        \/ hasAttribute(elem, "data-value")
        \/ classList(elem) \cap {"dropdown-item", "option", "select-option"} # {}
        \/ getAttribute(elem, "role") \in {"option", "menuitem"}
        \/ hasHiddenContainer(d, elem.parent, 0)
  IN IF isHiddenInteractive
     THEN \/ elem.display # "none"
          \/ elem.w > 0
          \/ elem.h > 0
          \/ Len(Trim(textContent(d, n))) > 0
     ELSE /\ elem.display # "none"
          /\ elem.visibility # "hidden"
          /\ elem.w > 0
          /\ elem.h > 0

\* cls.match(/^(p-\d|...)/): the prefix followed by a digit
StartsWithDigitAfter(s, p) ==
  StartsWith(s, p) /\ Len(s) > Len(p) /\ Char(s, Len(p) + 1) \in Digits

StartsWithAny(s, ps) == \E p \in ps : StartsWith(s, p)

\* the filter callback of generateSelector: TRUE when the class is kept
isSelectorClass(cls) ==
  /\ cls # ""
  /\ ~(Contains(cls, "[") \/ Contains(cls, "]"))
  /\ ~Contains(cls, "/")
  /\ ~Contains(cls, ":")
  /\ ~StartsWithAny(cls, {"v-theme--", "v-btn--density", "v-btn--size", "v-btn--variant"})
  /\ ~StartsWithAny(cls, {"text-", "bg-", "border-", "shadow-", "opacity-"})
  /\ ~(\/ StartsWithDigitAfter(cls, "p-") \/ StartsWithDigitAfter(cls, "m-")
       \/ StartsWithAny(cls, {"pt-", "pb-", "pl-", "pr-", "px-", "py-",
                              "mt-", "mb-", "ml-", "mr-", "mx-", "my-"}))
  /\ ~(\/ StartsWithDigitAfter(cls, "w-") \/ StartsWithDigitAfter(cls, "h-")
       \/ StartsWithAny(cls, {"min-", "max-"}))
  /\ ~(StartsWithDigitAfter(cls, "gap-") \/ StartsWith(cls, "space-"))
  /\ ~(Len(cls) <= 2)

maxDepth == 5

\* one step of the path: tag[#id][.class...][:nth-child(n)]
selectorStep(d, n) ==
  LET current == d[n]
      id == OrEmpty(getAttribute(current, "id"))
      classes == SelectSeq(Split(OrEmpty(getAttribute(current, "class"))), isSelectorClass)
      selectedClasses == SubSeq(classes, 1, IF Len(classes) < 3 THEN Len(classes) ELSE 3)
      siblings == Children(d, current.parent)
      sameTagSiblings == {i \in 1..Len(siblings) : d[siblings[i]].tag = current.tag}
      index == CHOOSE i \in 1..Len(siblings) : siblings[i] = n
  IN current.tag
       \o (IF id # "" THEN "#" \o id ELSE "")
       \o (IF Len(classes) > 0 THEN "." \o Join(selectedClasses, ".") ELSE "")
       \o (IF Cardinality(sameTagSiblings) > 1
           THEN ":nth-child(" \o ToStr(index) \o ")" ELSE "")

\* the while loop of generateSelector, from current upwards; <body> has no
\* id, class or same-tag sibling and <html> ends the walk
RECURSIVE selectorPath(_, _, _)
selectorPath(d, current, len) ==
  IF len >= maxDepth THEN <<>>
  ELSE IF current = 0 THEN <<"body">>
  ELSE Append(selectorPath(d, d[current].parent, len + 1), selectorStep(d, current))

generateSelector(d, n) == Join(selectorPath(d, n, 0), " > ")

InteractiveDataAttrs ==
  {"data-select", "data-click", "data-toggle", "data-action",
   "data-selected", "data-deselect", "data-option", "data-value"}

interactiveClassPatterns ==
  {"multiselect", "dropdown", "select", "picker", "chooser", "toggle",
   "switch", "slider", "accordion", "tab", "menu", "popup", "modal",
   "dialog", "overlay", "clickable", "selectable", "interactive", "control",
   "widget", "component"}

genericTags == {"div", "span", "strong", "b", "em", "i", "u", "small", "mark", "p"}

\* !/^[a-zA-Z0-9]{5,8}$/.test(cls) and the other tests of hasMeaningfulClass
isMeaningfulClass(cls) ==
  /\ Len(cls) > 3
  /\ ~StartsWith(cls, "css-")
  /\ ~StartsWith(cls, "sc-")
  /\ ~StartsWith(cls, "_")
  /\ ~(Len(cls) >= 5 /\ Len(cls) <= 8 /\ \A i \in 1..Len(cls) : Char(cls, i) \in Alnum)

isInteractive(d, n) ==
  LET elem == d[n]
      tagName == elem.tag
      className == OrEmpty(getAttribute(elem, "class"))
      classes == Split(className)
      hasText == Len(Trim(textContent(d, n))) > 0
      hasId == OrEmpty(getAttribute(elem, "id")) # ""
      hasAriaLabel == OrEmpty(getAttribute(elem, "aria-label")) # ""
      hasTitle == OrEmpty(getAttribute(elem, "title")) # ""
      hasMeaningfulClass ==
        className # "" /\ \E j \in 1..Len(classes) : isMeaningfulClass(classes[j])
  IN IF \/ tagName \in interactiveTags
        \/ hasAttribute(elem, "onclick")
        \/ getAttribute(elem, "role") \in {"button", "link", "checkbox", "tab"}
        \/ getAttribute(elem, "contenteditable") = "true"
     THEN TRUE
     ELSE IF getAttribute(elem, "tabindex") = "0" THEN TRUE
     ELSE IF \E a \in InteractiveDataAttrs : hasAttribute(elem, a) THEN TRUE
     ELSE IF \E p \in interactiveClassPatterns : Contains(Lower(className), p) THEN TRUE
     ELSE IF elem.cursor = "pointer"
          THEN IF tagName \in genericTags THEN FALSE
               ELSE hasText \/ hasId \/ hasAriaLabel \/ hasTitle \/ hasMeaningfulClass
     ELSE FALSE

\* getDirectTextOnly: the element's own text nodes, whitespace collapsed
getDirectTextOnly(elem) ==
  IF elem.tag \in {"script", "style"} THEN ""
  ELSE Trim(CollapseSpaces(elem.text))

(***************************************************************************)
(* In-page collector: the loop over allElements.                           *)
(***************************************************************************)
MaxTextJs == 300
MaxChildrenTextJs == 200
ContentCap == 500

IsDataAttr(a) == StartsWith(a.name, "data-") /\ a.name # MarkerAttr

\* the children_text of an interactive element without direct text
immediateChildrenText(d, n) ==
  LET kids == Children(d, n)
      F[i \in 0..Len(kids)] ==
        IF i = 0 THEN ""
        ELSE LET child == d[kids[i]]
                 childDirectText == getDirectTextOnly(child)
             IN IF child.tag \notin {"script", "style"} /\ childDirectText # ""
                THEN F[i - 1] \o childDirectText \o " "
                ELSE F[i - 1]
  IN Prefix(Trim(CollapseSpaces(F[Len(kids)])), MaxChildrenTextJs)

\* elem.querySelectorAll('td, th') of a tr, one record per cell
tableCellsOf(d, n) ==
  LET F[i \in n..Len(d)] ==
        LET rest == IF i = Len(d) THEN <<>> ELSE F[i + 1]
        IN IF i # n /\ IsAncestor(d, n, i) /\ d[i].tag \in {"td", "th"}
           THEN <<[text |-> Trim(textContent(d, i)),
                   data_label |-> OrEmpty(getAttribute(d[i], "data-label")),
                   title |-> OrEmpty(getAttribute(d[i], "title"))]>> \o rest
           ELSE rest
  IN F[n]

\* the elementData object built for a kept element (elem already carries
\* its marker); node is the DOM node the record was read from
elementData(d, n, currentRef, text, childrenText, isInteractiveElem) ==
  LET elem == d[n]
  IN [ref |-> currentRef,
      tag |-> elem.tag,
      text |-> text,
      children_text |-> childrenText,
      is_interactive |-> isInteractiveElem,
      css_selector |-> generateSelector(d, n),
      attributes |->
        [id |-> OrEmpty(getAttribute(elem, "id")),
         aria_label |-> OrEmpty(getAttribute(elem, "aria-label")),
         placeholder |-> OrEmpty(getAttribute(elem, "placeholder")),
         class |-> OrEmpty(getAttribute(elem, "class")),
         value |-> OrEmpty(getAttribute(elem, "value")),
         name |-> OrEmpty(getAttribute(elem, "name")),
         type |-> OrEmpty(getAttribute(elem, "type")),
         href |-> OrEmpty(getAttribute(elem, "href")),
         title |-> OrEmpty(getAttribute(elem, "title")),
         disabled |-> hasAttribute(elem, "disabled")],
      data_attributes |-> SelectSeq(elem.attrs, IsDataAttr),
      table_cells |-> IF elem.tag = "tr" THEN tableCellsOf(d, n) ELSE <<>>,
      node |-> n,
      valid |-> ~elem.bad]

\* an iteration whose limit counts the elements of both buckets
collectStepCapAll(st, n) ==
  LET d == st.d
      elem == d[n]
      tagName == elem.tag
      direct == getDirectTextOnly(elem)
      withAlt == IF tagName = "img" /\ direct = ""
                 THEN OrEmpty(getAttribute(elem, "alt")) ELSE direct
      text == Prefix(withAlt, MaxTextJs)
      isInteractiveElem == isInteractive(d, n)
      childrenText == IF isInteractiveElem /\ text = ""
                      THEN immediateChildrenText(d, n) ELSE ""
      hasMeaningfulAttributes ==
        \/ OrEmpty(getAttribute(elem, "id")) # ""
        \/ OrEmpty(getAttribute(elem, "data-id")) # ""
        \/ OrEmpty(getAttribute(elem, "data-value")) # ""
        \/ tagName = "tr"
        \/ tagName = "img"
      currentRef == Len(st.inter) + Len(st.cont)
      marked == [d EXCEPT ![n] = setAttribute(elem, MarkerAttr, ToStr(currentRef))]
      data == elementData(marked, n, currentRef, text, childrenText, isInteractiveElem)
  IN IF tagName \notin staticTags /\ tagName \notin interactiveTags THEN st
     ELSE IF ~isElementVisible(d, n) THEN st
     ELSE IF text = "" /\ childrenText = "" /\ ~isInteractiveElem
             /\ ~hasMeaningfulAttributes THEN st
     ELSE IF Len(st.inter) + Len(st.cont) >= ContentCap THEN st
     ELSE [inter |-> IF isInteractiveElem THEN Append(st.inter, data) ELSE st.inter,
           cont |-> IF isInteractiveElem THEN st.cont ELSE Append(st.cont, data),
           d |-> marked,
           marked |-> st.marked \cup {n}]

\* one iteration of the for loop, on element n
collectStep(st, n) ==
  LET d == st.d
      elem == d[n]
      tagName == elem.tag
      direct == getDirectTextOnly(elem)
      withAlt == IF tagName = "img" /\ direct = ""
                 THEN OrEmpty(getAttribute(elem, "alt")) ELSE direct
      text == Prefix(withAlt, MaxTextJs)
      isInteractiveElem == isInteractive(d, n)
      childrenText == IF isInteractiveElem /\ text = ""
                      THEN immediateChildrenText(d, n) ELSE ""
      hasMeaningfulAttributes ==
        \/ OrEmpty(getAttribute(elem, "id")) # ""
        \/ OrEmpty(getAttribute(elem, "data-id")) # ""
        \/ OrEmpty(getAttribute(elem, "data-value")) # ""
        \/ tagName = "tr"
        \/ tagName = "img"
      currentRef == Len(st.inter) + Len(st.cont)
      marked == [d EXCEPT ![n] = setAttribute(elem, MarkerAttr, ToStr(currentRef))]
      data == elementData(marked, n, currentRef, text, childrenText, isInteractiveElem)
  IN IF tagName \notin staticTags /\ tagName \notin interactiveTags THEN st
     ELSE IF ~isElementVisible(d, n) THEN st
     ELSE IF text = "" /\ childrenText = "" /\ ~isInteractiveElem
             /\ ~hasMeaningfulAttributes THEN st
     ELSE IF ~isInteractiveElem /\ Len(st.cont) >= ContentCap THEN st
     ELSE [inter |-> IF isInteractiveElem THEN Append(st.inter, data) ELSE st.inter,
           cont |-> IF isInteractiveElem THEN st.cont ELSE Append(st.cont, data),
           d |-> marked,
           marked |-> st.marked \cup {n}]

\* the loop over the first k elements of the document
RECURSIVE collectLoop(_, _)
collectLoop(d, k) ==
  IF k = 0 THEN [inter |-> <<>>, cont |-> <<>>, d |-> d, marked |-> {}]
  ELSE collectStep(collectLoop(d, k - 1), k)

\* a collector that returns only the elements that carried no marker yet
collect_unmarked_elements(d, scriptOk, failAt) ==
  LET st == collectLoop(d, IF scriptOk THEN Len(d) ELSE failAt)
  IN [data |-> IF scriptOk
               THEN SelectSeq(st.inter \o st.cont, LAMBDA e : ~hasMarker(d[e.node]))
               ELSE <<>>,
      d |-> st.d,
      marked |-> st.marked]

\* a collector whose except branch hands back what the script had gathered
collect_partial_elements(d, scriptOk, failAt) ==
  LET st == collectLoop(d, IF scriptOk THEN Len(d) ELSE failAt)
  IN [data |-> st.inter \o st.cont,
      d |-> st.d,
      marked |-> st.marked]

\* _collect_and_process_elements: execute_script either returns
\* interactiveElements.concat(contentElements), or raises after the script
\* has handled the first failAt elements and the except branch returns [].
collect_and_process_elements(d, scriptOk, failAt) ==
  LET st == collectLoop(d, IF scriptOk THEN Len(d) ELSE failAt)
  IN [data |-> IF scriptOk THEN st.inter \o st.cont ELSE <<>>,
      d |-> st.d,
      marked |-> st.marked]

(***************************************************************************)
(* Element model: _build_unified_element_map.                              *)
(***************************************************************************)
MaxTextInteractive == 250
MaxTextContent == 500
MaxChildrenText == 200

PageElement(element_data, index) ==
  [ref |-> ToStr(element_data.ref),
   tag |-> element_data.tag,
   text |-> Prefix(element_data.text,
                   IF element_data.is_interactive THEN MaxTextInteractive
                   ELSE MaxTextContent),
   children_text |-> Prefix(element_data.children_text, MaxChildrenText),
   attributes |-> element_data.attributes,
   is_interactive |-> element_data.is_interactive,
   css_selector |-> element_data.css_selector,
   index |-> index,
   data_attributes |-> element_data.data_attributes,
   table_cells |-> element_data.table_cells,
   node |-> element_data.node]

\* the for loop with its try/except: a record that fails is skipped and
\* does not advance unified_index_counter
RECURSIVE buildFrom(_, _, _)
buildFrom(element_data_list, i, unified_elements) ==
  IF i > Len(element_data_list) THEN unified_elements
  ELSE IF element_data_list[i].valid
       THEN buildFrom(element_data_list, i + 1,
                      Append(unified_elements,
                             PageElement(element_data_list[i], Len(unified_elements))))
       ELSE buildFrom(element_data_list, i + 1, unified_elements)

build_unified_element_map(element_data_list) == buildFrom(element_data_list, 1, <<>>)

(***************************************************************************)
(* Deduplicator.                                                           *)
(***************************************************************************)
NativeInteractive == {"a", "button", "input", "select", "textarea"}

tag_scores(tag) ==
  CASE tag = "a" -> 50 [] tag = "button" -> 45 [] tag = "input" -> 40
    [] tag = "select" -> 35 [] tag = "textarea" -> 30 [] tag = "label" -> 25
    [] tag = "span" -> 15 [] tag = "div" -> 10 [] tag = "p" -> 20
    [] OTHER -> 5

calculate_element_quality(element) ==
  (IF Trim(element.text) # "" THEN 100
   ELSE IF Trim(element.children_text) # "" THEN 50 ELSE 0)
  + tag_scores(Lower(element.tag))
  + (IF element.attributes.id # "" THEN 20 ELSE 0)
  + (IF element.attributes.href # "" THEN 15 ELSE 0)
  + (IF element.attributes.aria_label # "" THEN 10 ELSE 0)
  + (IF element.attributes.type # "" THEN 8 ELSE 0)
  + (IF element.attributes.name # "" THEN 5 ELSE 0)
  + (IF element.attributes.value # "" THEN 5 ELSE 0)
  - (IF Len(element.css_selector) > 100 THEN 5
     ELSE IF Len(element.css_selector) > 200 THEN 10 ELSE 0)

\* elem.text.strip() if elem.text.strip() else elem.children_text.strip()
effective_text(elem) ==
  IF Trim(elem.text) # "" THEN Trim(elem.text) ELSE Trim(elem.children_text)

\* the is_nested test on two css selectors
is_nested(parent_selector, child_selector) ==
  \/ StartsWith(child_selector, parent_selector \o " ")
  \/ StartsWith(child_selector, parent_selector \o ">")
  \/ (Contains(child_selector, parent_selector)
      /\ Len(child_selector) > Len(parent_selector))

\* sorted(elements, key=lambda x: len(x.css_selector)): stable
RECURSIVE insertByLen(_, _)
insertByLen(sorted, e) ==
  IF sorted = <<>> THEN <<e>>
  ELSE IF Len(sorted[Len(sorted)].css_selector) <= Len(e.css_selector)
       THEN Append(sorted, e)
       ELSE Append(insertByLen(SubSeq(sorted, 1, Len(sorted) - 1), e),
                   sorted[Len(sorted)])

sortByLen(elements) ==
  LET F[i \in 0..Len(elements)] ==
        IF i = 0 THEN <<>> ELSE insertByLen(F[i - 1], elements[i])
  IN F[Len(elements)]

\* the keys of text_groups in insertion order
groupKeys(elements) ==
  LET F[i \in 0..Len(elements)] ==
        IF i = 0 THEN <<>>
        ELSE LET prev == F[i - 1]
                 t == effective_text(elements[i])
             IN IF t # "" /\ \A k \in 1..Len(prev) : prev[k] # t
                THEN Append(prev, t) ELSE prev
  IN F[Len(elements)]

\* the inner loop over potential children j of potential parent i;
\* returns refs_to_remove
\* a child loop that settles every nested pair by quality alone
RECURSIVE groupInnerByQuality(_, _, _, _)
groupInnerByQuality(E, i, j, removed) ==
  IF j > Len(E) THEN removed
  ELSE IF E[j].ref \in removed THEN groupInnerByQuality(E, i, j + 1, removed)
  ELSE IF ~is_nested(E[i].css_selector, E[j].css_selector)
       THEN groupInnerByQuality(E, i, j + 1, removed)
  ELSE IF calculate_element_quality(E[i]) >= calculate_element_quality(E[j])
  THEN groupInnerByQuality(E, i, j + 1, removed \cup {E[j].ref})
  ELSE removed \cup {E[i].ref}

RECURSIVE groupInner(_, _, _, _)
groupInner(E, i, j, removed) ==
  IF j > Len(E) THEN removed
  ELSE IF E[j].ref \in removed THEN groupInner(E, i, j + 1, removed)
  ELSE IF ~is_nested(E[i].css_selector, E[j].css_selector)
       THEN groupInner(E, i, j + 1, removed)
  ELSE LET parent_is_interactive == Lower(E[i].tag) \in NativeInteractive
           child_is_interactive == Lower(E[j].tag) \in NativeInteractive
       IN IF child_is_interactive /\ ~parent_is_interactive
          THEN removed \cup {E[i].ref}
          ELSE IF parent_is_interactive /\ ~child_is_interactive
          THEN groupInner(E, i, j + 1, removed \cup {E[j].ref})
          ELSE IF calculate_element_quality(E[i]) >= calculate_element_quality(E[j])
          THEN groupInner(E, i, j + 1, removed \cup {E[j].ref})
          ELSE removed \cup {E[i].ref}

RECURSIVE groupOuter(_, _, _)
groupOuter(E, i, removed) ==
  IF i > Len(E) THEN removed
  ELSE IF E[i].ref \in removed THEN groupOuter(E, i + 1, removed)
  ELSE groupOuter(E, i + 1, groupInner(E, i, i + 1, removed))

\* max(remaining_elements, key=...): the first element of maximal quality
bestOf(remaining) ==
  remaining[CHOOSE i \in 1..Len(remaining) :
              /\ \A k \in 1..Len(remaining) :
                   calculate_element_quality(remaining[k])
                     <= calculate_element_quality(remaining[i])
              /\ \A k \in 1..(i - 1) :
                   calculate_element_quality(remaining[k])
                     < calculate_element_quality(remaining[i])]

\* the body of the loop over text_groups, for one group
dedupGroup(elements, removed) ==
  IF Len(elements) <= 1 THEN removed
  ELSE LET r1 == groupOuter(sortByLen(elements), 1, removed)
           NotRemoved(e) == e.ref \notin r1
           remaining_elements == SelectSeq(elements, NotRemoved)
       IN IF Len(remaining_elements) > 1
          THEN r1 \cup ({remaining_elements[k].ref : k \in 1..Len(remaining_elements)}
                         \ {bestOf(remaining_elements).ref})
          ELSE r1

is_likely_pagination(child, child_text) ==
  /\ Lower(child.tag) = "a"
  /\ child_text # ""
  /\ Len(child_text) <= 3
  /\ (IsDigit(child_text) \/ Lower(child_text) \in {"next", "prev", "previous", "..."})

\* the inner loop of the subset-text pass over children j of parent i
RECURSIVE subsetInner(_, _, _, _)
subsetInner(S, i, j, removed) ==
  IF j > Len(S) THEN removed
  ELSE IF i = j \/ S[j].ref \in removed THEN subsetInner(S, i, j + 1, removed)
  ELSE IF ~is_nested(S[i].css_selector, S[j].css_selector)
       THEN subsetInner(S, i, j + 1, removed)
  ELSE LET parent_text == effective_text(S[i])
           child_text == IF S[j].text # "" THEN Trim(S[j].text)
                         ELSE Trim(S[j].children_text)
       IN IF /\ child_text # ""
             /\ Contains(parent_text, child_text)
             /\ child_text # parent_text
             /\ ~is_likely_pagination(S[j], child_text)
          THEN subsetInner(S, i, j + 1, removed \cup {S[j].ref})
          ELSE subsetInner(S, i, j + 1, removed)

RECURSIVE subsetOuter(_, _, _)
subsetOuter(S, i, removed) ==
  IF i > Len(S) THEN removed
  ELSE IF S[i].ref \in removed \/ effective_text(S[i]) = ""
       THEN subsetOuter(S, i + 1, removed)
  ELSE subsetOuter(S, i + 1, subsetInner(S, i, 1, removed))

\* refs_to_remove after the loop over text_groups
groupRemoved(interactive_elements) ==
  LET keys == groupKeys(interactive_elements)
      G[k \in 0..Len(keys)] ==
        IF k = 0 THEN {}
        ELSE LET InGroup(e) == effective_text(e) = keys[k]
             IN dedupGroup(SelectSeq(interactive_elements, InGroup), G[k - 1])
  IN G[Len(keys)]

\* refs_to_remove at the end of _deduplicate_nested_elements
refs_to_remove(interactive_elements) ==
  subsetOuter(sortByLen(interactive_elements), 1, groupRemoved(interactive_elements))

\* a deduplicator that filters the list sorted by selector length
deduplicate_sorted_elements(interactive_elements) ==
  IF interactive_elements = <<>> THEN interactive_elements
  ELSE LET removed == refs_to_remove(interactive_elements)
           Kept(e) == e.ref \notin removed
       IN SelectSeq(sortByLen(interactive_elements), Kept)

deduplicate_nested_elements(interactive_elements) ==
  IF interactive_elements = <<>> THEN interactive_elements
  ELSE LET removed == refs_to_remove(interactive_elements)
           Kept(e) == e.ref \notin removed
       IN SelectSeq(interactive_elements, Kept)

(***************************************************************************)
(* Pattern compressor.                                                     *)
(***************************************************************************)
compression_threshold == 15
show_first == 10
show_last == 2

\* the number of consecutive characters of s from position i that are in cs
RECURSIVE runLen(_, _, _)
runLen(s, i, cs) ==
  IF i > Len(s) \/ Char(s, i) \notin cs THEN 0 ELSE 1 + runLen(s, i + 1, cs)

WordDash == Alnum \cup {"_", "-"}

atEndOr(s, i, cs) == i > Len(s) \/ Char(s, i) \in cs

\* re.sub(r'#([\w-]+?)<sep>[A-Za-z0-9]{6,}', r'#\1<sep>*', s) from position i
RECURSIVE subIdSuffix(_, _, _)
subIdSuffix(s, i, sep) ==
  IF i > Len(s) THEN ""
  ELSE LET ks == {k \in 1..runLen(s, i + 1, WordDash) :
                    /\ i + k + 1 <= Len(s)
                    /\ Char(s, i + k + 1) = sep
                    /\ runLen(s, i + k + 2, Alnum) >= 6}
       IN IF Char(s, i) = "#" /\ ks # {}
          THEN LET k == CHOOSE x \in ks : \A y \in ks : x <= y
               IN "#" \o SubSeq(s, i + 1, i + k) \o sep \o "*"
                    \o subIdSuffix(s, i + k + 2 + runLen(s, i + k + 2, Alnum), sep)
          ELSE Char(s, i) \o subIdSuffix(s, i + 1, sep)

\* re.sub(r'#[A-Za-z0-9]{8,}(?=\s|>|$)', '#*', s) from position i
RECURSIVE subHashId(_, _)
subHashId(s, i) ==
  IF i > Len(s) THEN ""
  ELSE LET r == runLen(s, i + 1, Alnum)
       IN IF Char(s, i) = "#" /\ r >= 8 /\ atEndOr(s, i + 1 + r, {" ", ">"})
          THEN "#*" \o subHashId(s, i + 1 + r)
          ELSE Char(s, i) \o subHashId(s, i + 1)

\* re.sub(r':nth-child\(\d+\)', ':nth-child(*)', s) from position i
RECURSIVE subNthChild(_, _)
subNthChild(s, i) ==
  IF i > Len(s) THEN ""
  ELSE LET head == ":nth-child("
           r == runLen(s, i + Len(head), Digits)
           close == i + Len(head) + r
       IN IF /\ MatchAt(s, i, head)
             /\ r >= 1
             /\ close <= Len(s)
             /\ Char(s, close) = ")"
          THEN ":nth-child(*)" \o subNthChild(s, close + 1)
          ELSE Char(s, i) \o subNthChild(s, i + 1)

\* re.sub(r'([_-])\d+(?=\s|>|\.|\[|$)', r'\1*', s) from position i
RECURSIVE subNumber(_, _)
subNumber(s, i) ==
  IF i > Len(s) THEN ""
  ELSE LET r == runLen(s, i + 1, Digits)
       IN IF /\ Char(s, i) \in {"_", "-"}
             /\ r >= 1
             /\ atEndOr(s, i + 1 + r, {" ", ">", ".", "["})
          THEN Char(s, i) \o "*" \o subNumber(s, i + 1 + r)
          ELSE Char(s, i) \o subNumber(s, i + 1)

extract_css_pattern(css_selector) ==
  LET p1 == subIdSuffix(css_selector, 1, "_")
      p2 == subIdSuffix(p1, 1, "-")
      p3 == subHashId(p2, 1)
      p4 == subNthChild(p3, 1)
  IN subNumber(p4, 1)

\* Python slice seq[a:b] on a 0-based sequence
Slice(seq, a, b) == SubSeq(seq, a + 1, IF b < Len(seq) THEN b ELSE Len(seq))

Min(a, b) == IF a < b THEN a ELSE b

\* f"{elem.tag}:{','.join(sorted(data keys))}": the tag with the set of the
\* data-* names other than data-agent-ref (signatures are only compared)
signature(elem) ==
  <<elem.tag,
    {elem.data_attributes[i].name : i \in 1..Len(elem.data_attributes)}
      \ {MarkerAttr}>>

signaturesOf(elements) == [i \in 1..Len(elements) |-> signature(elements[i])]

\* max(sequence_counts.values()) for one seq_length
maxChunkCount(signatures, seq_length) ==
  LET starts == {i \in 0..(Len(signatures) - seq_length) : i % seq_length = 0}
      counts == {Cardinality({j \in starts :
                    Slice(signatures, j, j + seq_length)
                      = Slice(signatures, i, i + seq_length)}) : i \in starts}
  IN IF starts = {} THEN 0
     ELSE CHOOSE c \in counts : \A other \in counts : other <= c

\* the for loop over seq_length from L on, best being
\* <<best_sequence_length, best_repetition_count>> so far
RECURSIVE bestFrom(_, _, _, _, _)
bestFrom(signatures, threshold, L, hi, best) ==
  IF L > hi THEN best
  ELSE bestFrom(signatures, threshold, L + 1, hi,
         CHOOSE b \in {IF max_count > 0 /\ max_count >= threshold \div L
                          /\ max_count > best[2]
                       THEN <<L, max_count>> ELSE best :
                         max_count \in {maxChunkCount(signatures, L)}} : TRUE)

\* the for loop over seq_length: <<best_sequence_length, best_repetition_count>>,
\* best_sequence_length 0 standing for None
bestSequence(signatures, threshold) ==
  bestFrom(signatures, threshold, 2, Min(11, Len(signatures) \div 3) - 1, <<0, 0>>)

\* the inner while loop counting consecutive instances from j
RECURSIVE countInstances(_, _, _, _)
countInstances(signatures, j, L, current_sig) ==
  IF j + L <= Len(signatures) /\ Slice(signatures, j, j + L) = current_sig
  THEN 1 + countInstances(signatures, j + L, L, current_sig)
  ELSE 0

ElementItem(e) == [type |-> "element", element |-> e]

CompressedItem(pattern, count, shown, first, lastN) ==
  [type |-> "compressed", pattern |-> pattern, count |-> count,
   shown |-> shown, show_first |-> first, show_last |-> lastN]

\* shown_elements whose test leaves show_last out
shownSequencesFirstOnly(all_sequence_elements, instances, L, first, lastN) ==
  IF instances > first
  THEN Slice(all_sequence_elements, 0, first * L)
         \o Slice(all_sequence_elements, (instances - lastN) * L, instances * L)
  ELSE all_sequence_elements

\* shown_elements of a run of instances chunks of length L
shownSequences(all_sequence_elements, instances, L, first, lastN) ==
  IF instances > first + lastN
  THEN Slice(all_sequence_elements, 0, first * L)
         \o Slice(all_sequence_elements, (instances - lastN) * L, instances * L)
  ELSE all_sequence_elements

\* the while loop of _detect_repeating_sequences from 0-based position i,
\* acc holding result and sequence_instances so far
RECURSIVE sequenceLoop(_, _, _, _, _, _, _)
sequenceLoop(elements, signatures, L, first, lastN, i, acc) ==
  IF i >= Len(elements) THEN acc
  ELSE LET instances ==
             countInstances(signatures, i, L, Slice(signatures, i, i + L))
           step == IF instances >= 3 THEN instances * L
                   ELSE Min(IF instances > 0 THEN L ELSE 1, Len(elements) - i)
       IN sequenceLoop(elements, signatures, L, first, lastN, i + step,
            IF instances >= 3
            THEN [result |->
                    Append(acc.result,
                      CompressedItem("repeating sequence of " \o ToStr(L) \o " elements",
                        instances * L,
                        shownSequences(Slice(elements, i, i + instances * L),
                                       instances, L, first, lastN),
                        first * L, lastN * L)),
                  sequence_instances |-> acc.sequence_instances + instances]
            ELSE [result |->
                    acc.result \o [k \in 1..step |-> ElementItem(elements[i + k])],
                  sequence_instances |-> acc.sequence_instances])

\* _detect_repeating_sequences: found is FALSE for None
detect_repeating_sequences(elements, threshold, first, lastN) ==
  LET none == [found |-> FALSE, result |-> <<>>]
  IN IF Len(elements) < threshold THEN none
     ELSE LET signatures == signaturesOf(elements)
              best == bestSequence(signatures, threshold)
          IN IF best[1] # 0 /\ best[2] >= 3
             THEN LET r == sequenceLoop(elements, signatures, best[1], first, lastN, 0,
                                     [result |-> <<>>, sequence_instances |-> 0])
                  IN IF r.sequence_instances > 0
                     THEN [found |-> TRUE, result |-> r.result] ELSE none
             ELSE none

\* the length of the run of equal patterns starting at 1-based position i
RECURSIVE runLength(_, _, _)
runLength(elements, i, current_pattern) ==
  IF i > Len(elements)
     \/ extract_css_pattern(elements[i].css_selector) # current_pattern
  THEN 0
  ELSE 1 + runLength(elements, i + 1, current_pattern)

\* the fallback while loop of _compress_repetitive_patterns from position i
RECURSIVE runLoop(_, _, _, _, _)
runLoop(elements, threshold, first, lastN, i) ==
  IF i > Len(elements) THEN <<>>
  ELSE LET current_pattern == extract_css_pattern(elements[i].css_selector)
           run_length == 1 + runLength(elements, i + 1, current_pattern)
           run_elements == SubSeq(elements, i, i + run_length - 1)
           shown_elements ==
             IF run_length > first + lastN
             THEN SubSeq(run_elements, 1, first)
                    \o SubSeq(run_elements, run_length - lastN + 1, run_length)
             ELSE run_elements
           rest == runLoop(elements, threshold, first, lastN, i + run_length)
       IN IF run_length >= threshold
          THEN <<CompressedItem(current_pattern, run_length, shown_elements,
                                first, lastN)>> \o rest
          ELSE [k \in 1..run_length |-> ElementItem(run_elements[k])] \o rest

compress_repetitive_patterns(deduplicated_elements) ==
  IF deduplicated_elements = <<>> THEN <<>>
  ELSE LET sequence_result ==
             detect_repeating_sequences(deduplicated_elements,
                                        compression_threshold, show_first, show_last)
       IN IF sequence_result.found /\ Len(sequence_result.result) > 0
          THEN sequence_result.result
          ELSE runLoop(deduplicated_elements, compression_threshold,
                       show_first, show_last, 1)

(***************************************************************************)
(* Formatter.  A line is kept in two parts, the per-mode prefix and the    *)
(* rest; the text of the line is prefix \o rest.  src is the ref of the    *)
(* element the line was formatted from, hidden the count of a marker.      *)
(***************************************************************************)
NoLine == [kind |-> "none", prefix |-> "", rest |-> "", src |-> "", hidden |-> 0]

ElementLine(prefix, rest, src) ==
  [kind |-> "element", prefix |-> prefix, rest |-> rest, src |-> src, hidden |-> 0]

MarkerLine(text, hidden) ==
  [kind |-> "marker", prefix |-> "", rest |-> text, src |-> "", hidden |-> hidden]

Render(line) == line.prefix \o line.rest

truncate_text(text, max_length) ==
  IF text = "" \/ Len(text) <= max_length THEN text
  ELSE TrimRight(SubSeq(text, 1, max_length)) \o "..."

\* the index of the first character of s at or after i that is in cs,
\* Len(s) + 1 when there is none
RECURSIVE findChar(_, _, _)
findChar(s, i, cs) ==
  IF i > Len(s) \/ Char(s, i) \in cs THEN i ELSE findChar(s, i + 1, cs)

\* _truncate_url; urlparse splits scheme://netloc, path and query
truncate_url(url, max_length) ==
  IF url = "" \/ Len(url) <= max_length THEN url
  ELSE LET simple == TrimRight(SubSeq(url, 1, max_length)) \o "..."
           schemeLen == IF StartsWith(url, "http://") THEN 7 ELSE 8
           pathAt == findChar(url, schemeLen + 1, {"/", "?", "#"})
           queryAt == findChar(url, pathAt, {"?", "#"})
           fragAt == findChar(url, pathAt, {"#"})
           domain == SubSeq(url, 1, pathAt - 1)
           path == SubSeq(url, pathAt, queryAt - 1)
           query == IF queryAt <= Len(url) /\ Char(url, queryAt) = "?"
                    THEN SubSeq(url, queryAt + 1, fragAt - 1) ELSE ""
           remaining_length == max_length - Len(domain) - 6
           path_part == path \o (IF query # "" THEN "?" \o query ELSE "")
           half == (remaining_length + 1) \div 2
           end_part == IF remaining_length > 10
                       THEN SubSeq(path_part, Len(path_part) - half + 1, Len(path_part))
                       ELSE ""
       IN IF StartsWith(url, "http://") \/ StartsWith(url, "https://")
          THEN IF Len(domain) >= max_length - 10 THEN simple
               ELSE IF remaining_length > 0
                    THEN IF Len(path_part) <= remaining_length THEN url
                         ELSE domain \o "/..." \o end_part
                    ELSE simple
          ELSE simple

linePrefix(element_data, map_type) ==
  IF map_type = "rich" THEN "CSS: " \o element_data.css_selector
  ELSE "ref=\"" \o element_data.ref \o "\""

Quoted(key, value) == key \o "=\"" \o value \o "\""

format_single_element(element_data, map_type) ==
  LET text == Trim(element_data.text)
      a == element_data.attributes
      description_parts ==
        <<element_data.tag \o " ">>
        \o (IF text # "" THEN <<"TEXT:\"" \o truncate_text(text, 100) \o "\"">>
            ELSE IF element_data.children_text # ""
            THEN <<"CHILDREN_TEXT:\""
                     \o truncate_text(element_data.children_text, 100) \o "\"">>
            ELSE <<>>)
        \o (IF a.aria_label # ""
            THEN <<Quoted("aria-label", truncate_text(a.aria_label, 50))>> ELSE <<>>)
        \o (IF a.placeholder # ""
            THEN <<Quoted("placeholder", truncate_text(a.placeholder, 50))>> ELSE <<>>)
        \o (IF a.id # "" THEN <<Quoted("id", a.id)>> ELSE <<>>)
        \o (IF a.value # "" THEN <<Quoted("value", truncate_text(a.value, 50))>> ELSE <<>>)
        \o (IF a.name # "" THEN <<Quoted("name", a.name)>> ELSE <<>>)
        \o (IF a.type # "" THEN <<Quoted("type", a.type)>> ELSE <<>>)
        \o (IF a.href # "" THEN <<Quoted("href", truncate_url(a.href, 80))>> ELSE <<>>)
        \o (IF a.title # "" THEN <<Quoted("title", truncate_text(a.title, 50))>> ELSE <<>>)
        \o (IF a.disabled THEN <<Quoted("disabled", "True")>> ELSE <<>>)
      has_identifiers ==
        \/ text # ""
        \/ element_data.children_text # ""
        \/ a.aria_label # ""
        \/ a.placeholder # ""
        \/ a.id # ""
        \/ a.value # ""
        \/ a.name # ""
        \/ a.type # ""
        \/ a.href # ""
        \/ a.title # ""
  IN IF ~has_identifiers THEN NoLine
     ELSE ElementLine(linePrefix(element_data, map_type),
                      " | TYPE: " \o Join(description_parts, " "),
                      element_data.ref)

format_single_content_element(element_data, map_type) ==
  LET text == Trim(element_data.text)
      element_id == element_data.attributes.id
      title == element_data.attributes.title
      da == element_data.data_attributes
      has_meaningful_attrs == element_id # "" \/ title # "" \/ Len(da) > 0
      NotRef(x) == x.name # MarkerAttr
      shownData == SelectSeq(da, NotRef)
      attr_parts ==
        (IF element_id # "" THEN <<Quoted("id", element_id)>> ELSE <<>>)
        \o (IF title # "" THEN <<Quoted("title", truncate_text(title, 100))>> ELSE <<>>)
        \o [i \in 1..Len(shownData) |->
              Quoted(shownData[i].name, truncate_text(shownData[i].value, 100))]
      truncated_text == IF text # "" THEN truncate_text(text, 200) ELSE ""
      cells == element_data.table_cells
      cellPart(cell) ==
        LET cell_text == IF cell.text # "" THEN truncate_text(cell.text, 50) ELSE ""
        IN IF cell.data_label # "" /\ cell_text # ""
           THEN <<cell.data_label \o "=" \o cell_text>>
           ELSE IF cell_text # "" THEN <<cell_text>> ELSE <<>>
      P[i \in 0..Len(cells)] == IF i = 0 THEN <<>> ELSE P[i - 1] \o cellPart(cells[i])
      cell_parts == P[Len(cells)]
      base == " | TAG: " \o element_data.tag
                \o (IF Len(attr_parts) > 0 THEN " | " \o Join(attr_parts, " ") ELSE "")
      tail == IF element_data.tag = "tr" /\ Len(cells) > 0
              THEN IF Len(cell_parts) > 0
                   THEN " | ROW: " \o Join(cell_parts, " | ") ELSE ""
              ELSE IF truncated_text # "" THEN " | Text: " \o truncated_text
              ELSE ""
  IN IF text = "" /\ ~has_meaningful_attrs THEN NoLine
     ELSE ElementLine(linePrefix(element_data, map_type), base \o tail,
                      element_data.ref)

IsLine(line) == line.kind # "none"

\* the lines of a list of elements, the skipped ones left out
linesOf(elements, map_type, Single(_, _)) ==
  SelectSeq([i \in 1..Len(elements) |-> Single(elements[i], map_type)], IsLine)

\* a lean rendering that leaves the notice out
compressionNoticeRichOnly(item, map_type) ==
  LET hidden_count == item.count - Len(item.shown)
  IN IF hidden_count > 0 /\ map_type = "rich"
     THEN <<MarkerLine("... [" \o ToStr(hidden_count)
                         \o " more elements with pattern: " \o item.pattern \o "]",
                       hidden_count)>>
     ELSE <<>>

compressionNotice(item, map_type) ==
  LET hidden_count == item.count - Len(item.shown)
  IN IF hidden_count > 0
     THEN IF map_type = "rich"
          THEN <<MarkerLine("... [" \o ToStr(hidden_count)
                              \o " more elements with pattern: " \o item.pattern \o "]",
                            hidden_count)>>
          ELSE <<MarkerLine("... [" \o ToStr(hidden_count) \o " more similar elements]",
                            hidden_count)>>
     ELSE <<>>

\* the lines one item of compressed_items adds to prompt_lines
itemLines(item, map_type, Single(_, _)) ==
  IF item.type = "element" THEN linesOf(<<item.element>>, map_type, Single)
  ELSE linesOf(Slice(item.shown, 0, item.show_first), map_type, Single)
         \o compressionNotice(item, map_type)
         \o (IF Len(item.shown) > item.show_first
             THEN linesOf(Slice(item.shown, item.show_first, Len(item.shown)),
                          map_type, Single)
             ELSE <<>>)

\* the for loop over compressed_items: prompt_lines
promptLines(compressed_items, map_type, Single(_, _)) ==
  LET F[i \in 0..Len(compressed_items)] ==
        IF i = 0 THEN <<>>
        ELSE F[i - 1] \o itemLines(compressed_items[i], map_type, Single)
  IN F[Len(compressed_items)]

\* prompt_lines of _format_interactive_map_for_prompt
interactiveLines(interactive_elements, map_type) ==
  promptLines(
    compress_repetitive_patterns(deduplicate_nested_elements(interactive_elements)),
    map_type, format_single_element)

\* prompt_lines of _format_content_map_for_prompt
contentLines(content_elements, map_type) ==
  promptLines(compress_repetitive_patterns(content_elements), map_type,
              format_single_content_element)

TextOf(lines) == Join([i \in 1..Len(lines) |-> Render(lines[i])], "\n")

format_interactive_map_for_prompt(interactive_elements, map_type) ==
  TextOf(interactiveLines(interactive_elements, map_type))

format_content_map_for_prompt(content_elements, map_type) ==
  TextOf(contentLines(content_elements, map_type))

(***************************************************************************)
(* PageParser.get_page_maps and SeleniumBaseBrowser.generate_page_map.     *)
(***************************************************************************)
\* _cleanup_interactive_markers / _cleanup_content_markers: when the script
\* runs, every data-agent-ref is removed; when execute_script raises, the
\* except branch logs and the document is left as it was
removeMarkers(d) == [n \in 1..Len(d) |-> removeAttribute(d[n])]

cleanup_interactive_markers(d, ok) == IF ok THEN removeMarkers(d) ELSE d

cleanup_content_markers(d, ok) == IF ok THEN removeMarkers(d) ELSE d

IsInteractiveElem(e) == e.is_interactive

\* a split that sends every element to the content map
IsContentElemAny(e) == TRUE

IsContentElem(e) == ~e.is_interactive

\* list.sort(key=lambda x: x.index): stable insertion by index
RECURSIVE insertByIndex(_, _)
insertByIndex(sorted, e) ==
  IF sorted = <<>> THEN <<e>>
  ELSE IF sorted[Len(sorted)].index <= e.index THEN Append(sorted, e)
  ELSE Append(insertByIndex(SubSeq(sorted, 1, Len(sorted) - 1), e),
              sorted[Len(sorted)])

sortByIndex(elements) ==
  LET F[i \in 0..Len(elements)] ==
        IF i = 0 THEN <<>> ELSE insertByIndex(F[i - 1], elements[i])
  IN F[Len(elements)]

\* the split into interactive and content elements and the two formatted maps
splitAndFormat(all_elements, map_type) ==
  [interactive_elements |-> SelectSeq(all_elements, IsInteractiveElem),
   interactive_lines |->
     interactiveLines(SelectSeq(all_elements, IsInteractiveElem), map_type),
   content_elements |-> SelectSeq(all_elements, IsContentElem),
   content_lines |-> contentLines(SelectSeq(all_elements, IsContentElem), map_type)]

\* get_page_maps after the two cleanups: collected is what the collector
\* returned and left in the document, stale tells whether it found markers
mapsOf(collected, maps, stale) ==
  [d |-> collected.d,
   marked |-> collected.marked,
   stale |-> stale,
   interactive_elements |-> maps.interactive_elements,
   interactive_lines |-> maps.interactive_lines,
   content_elements |-> maps.content_elements,
   content_lines |-> maps.content_lines]

collectAndFormat(collected, map_type, stale) ==
  mapsOf(collected,
         splitAndFormat(build_unified_element_map(collected.data), map_type),
         stale)

\* get_page_maps on document d: the document it leaves and the four results
get_page_maps(d, map_type, clean1Ok, clean2Ok, scriptOk, failAt) ==
  LET d2 == cleanup_content_markers(cleanup_interactive_markers(d, clean1Ok),
                                    clean2Ok)
  IN collectAndFormat(collect_and_process_elements(d2, scriptOk, failAt),
                      map_type, \E n \in 1..Len(d2) : hasMarker(d2[n]))

\* generate_page_map once get_page_maps has returned m
pageMapOf(m) ==
  [d |-> m.d,
   marked |-> m.marked,
   stale |-> m.stale,
   elements |-> sortByIndex(m.interactive_elements \o m.content_elements),
   interactive_lines |-> m.interactive_lines,
   interactiveText |-> TextOf(m.interactive_lines),
   content_lines |-> m.content_lines,
   contentText |-> TextOf(m.content_lines)]

\* generate_page_map of a started browser (the network part left out)
generate_page_map(d, map_type, clean1Ok, clean2Ok, scriptOk, failAt) ==
  pageMapOf(get_page_maps(d, map_type, clean1Ok, clean2Ok, scriptOk, failAt))

(***************************************************************************)
(* The state machine: one document, the calls of generate_page_map on it   *)
(* and the page's own changes between calls.                               *)
(*   dom     the live document                                             *)
(*   writer  for each element, which call wrote the data-agent-ref it       *)
(*           carries: none, the latest call, or a call before the latest   *)
(*   last    what the latest call returned, and under prev what the call   *)
(*           before it returned when the page has not changed since        *)
(*   streak  calls since the page last changed (2 stands for 2 or more)    *)
(*   muts    page changes so far                                           *)
(***************************************************************************)
NoCall == "none"
ThisCall == "latest"
EarlierCall == "earlier"

\* what the caller compares between two maps
Tuples(elements) ==
  [i \in 1..Len(elements) |->
     <<elements[i].tag, elements[i].text, elements[i].children_text,
       elements[i].is_interactive, elements[i].data_attributes>>]

NoPrev == [ok |-> FALSE, tuples |-> <<>>]

NoMap ==
  [elements |-> <<>>, interactive_lines |-> <<>>, interactiveText |-> "",
   content_lines |-> <<>>, contentText |-> "", map_type |-> "none",
   scriptOk |-> TRUE, stale |-> FALSE, prev |-> NoPrev]

\* S1: <h1>Hi</h1><a href="/x">Go</a>
PageSimple ==
  <<Node("h1", 0, "Hi", <<>>),
    Node("a", 0, "Go", <<Attr("href", "/x")>>)>>

\* S3 with a paragraph: <p id="t">x</p><div onclick="f()">Submit<button>Submit</button></div>
PageSubmit ==
  <<Node("p", 0, "x", <<Attr("id", "t")>>),
    Node("div", 0, "Submit", <<Attr("onclick", "f()")>>),
    Node("button", 2, "Submit", <<>>)>>

\* <input name="q"><ul><li data-k="v">one</li></ul>
PageForm ==
  <<Node("input", 0, "", <<Attr("name", "q")>>),
    Node("ul", 0, "", <<>>),
    Node("li", 2, "one", <<Attr("data-k", "v")>>)>>

\* S1 with a heading whose record PageElement rejects
PageSimpleBad == [PageSimple EXCEPT ![1].bad = TRUE]

Pages == {PageSimple, PageSimpleBad, PageSubmit, PageForm}

\* <div onclick="go(event)"><a href="/1">1</a><a href="/2">2</a>
\* <a href="/3">3</a><a href="/n">Next</a></div>
PagePager ==
  <<Node("div", 0, "", <<Attr("onclick", "go(event)")>>),
    Node("a", 1, "1", <<Attr("href", "/1")>>),
    Node("a", 1, "2", <<Attr("href", "/2")>>),
    Node("a", 1, "3", <<Attr("href", "/3")>>),
    Node("a", 1, "Next", <<Attr("href", "/n")>>)>>

\* <label id="send" aria-label="Send" onclick="f()">Submit</label>
\* <div onclick="f()">Submit<button>Submit</button></div>
PageTriple ==
  <<Node("label", 0, "Submit",
         <<Attr("id", "send"), Attr("aria-label", "Send"), Attr("onclick", "f()")>>),
    Node("div", 0, "Submit", <<Attr("onclick", "f()")>>),
    Node("button", 2, "Submit", <<>>)>>

\* <div onclick="f()"><input name="q"></div>
PageEmptyPair ==
  <<Node("div", 0, "", <<Attr("onclick", "f()")>>),
    Node("input", 1, "", <<Attr("name", "q")>>)>>

\* <a href="/go"><div onclick="f()">Go<button>Go</button></div></a>
PageNest ==
  <<Node("a", 0, "", <<Attr("href", "/go")>>),
    Node("div", 1, "Go", <<Attr("onclick", "f()")>>),
    Node("button", 2, "Go", <<>>)>>

\* <div id="box" onclick="f()">Note<textarea>Note</textarea></div>
PageNote ==
  <<Node("div", 0, "Note", <<Attr("id", "box"), Attr("onclick", "f()")>>),
    Node("textarea", 1, "Note", <<>>)>>

DedupPages ==
  {PagePager, PageTriple, PageEmptyPair, PageSubmit, PageNest, PageNote}

InitWith(pages) ==
  /\ dom \in pages
  /\ writer = [n \in 1..Len(dom) |-> NoCall]
  /\ last = NoMap
  /\ streak = 0
  /\ muts = 0
  /\ act = NoAct
  /\ ts = NoToolset
  /\ calc = NoCalc

Init == InitWith(Pages)

\* the outcomes of the collector's execute_script: it returns, or it raises
\* after the script has handled the first failAt elements
ScriptOutcomes(d) ==
  {[scriptOk |-> TRUE, failAt |-> 0]}
    \cup {[scriptOk |-> FALSE, failAt |-> k] : k \in 0..Len(d)}

\* the outcomes of a cleanup execute_script: it returns, or it raises; on a
\* document without markers both leave the same document
CleanupOutcomes(d) ==
  IF \E n \in 1..Len(d) : hasMarker(d[n]) THEN BOOLEAN ELSE {TRUE}

\* one call of generate_page_map whose collector script ends as one of outcomes
Generate(outcomes) ==
  /\ \E map_type \in {"lean", "rich"},
        clean1Ok \in CleanupOutcomes(dom),
        o \in outcomes :
     \E clean2Ok \in CleanupOutcomes(cleanup_interactive_markers(dom, clean1Ok)) :
       \E r \in {generate_page_map(dom, map_type, clean1Ok, clean2Ok,
                                  o.scriptOk, o.failAt)} :
          /\ dom' = r.d
          /\ writer' = [n \in 1..Len(dom) |->
                          IF n \in r.marked THEN ThisCall
                          ELSE IF hasMarker(r.d[n]) THEN EarlierCall ELSE NoCall]
          /\ last' = [elements |-> r.elements,
                      interactive_lines |-> r.interactive_lines,
                      interactiveText |-> r.interactiveText,
                      content_lines |-> r.content_lines,
                      contentText |-> r.contentText,
                      map_type |-> map_type,
                      scriptOk |-> o.scriptOk,
                      stale |-> r.stale,
                      prev |-> IF streak >= 1 /\ last.scriptOk
                               THEN [ok |-> TRUE, tuples |-> Tuples(last.elements)]
                               ELSE NoPrev]
  /\ streak' = IF streak < 2 THEN streak + 1 ELSE 2
  /\ UNCHANGED <<muts, others>>

\* a call of generate_page_map, whatever becomes of its scripts
GeneratePageMap == Generate(ScriptOutcomes(dom))

\* a call of generate_page_map whose collector script returns
GeneratePageMapOk == Generate({[scriptOk |-> TRUE, failAt |-> 0]})

\* the page hides an element
HideElement ==
  /\ muts < MaxMuts
  /\ \E n \in 1..Len(dom) :
       /\ dom[n].display # "none"
       /\ dom' = [dom EXCEPT ![n].display = "none"]
  /\ muts' = muts + 1
  /\ streak' = 0
  /\ UNCHANGED <<writer, last, others>>

\* the page empties an element's text
ClearText ==
  /\ muts < MaxMuts
  /\ \E n \in 1..Len(dom) :
       /\ dom[n].text # ""
       /\ dom' = [dom EXCEPT ![n].text = ""]
  /\ muts' = muts + 1
  /\ streak' = 0
  /\ UNCHANGED <<writer, last, others>>

Next == GeneratePageMap \/ HideElement \/ ClearText

Spec == Init /\ [][Next]_vars

\* the calls whose collector script returns, for the properties of what is
\* done with the collected elements
NextOk == GeneratePageMapOk \/ HideElement \/ ClearText

\* the pages that exercise the deduplicator
InitDedup == InitWith(DedupPages)

SpecDedup == InitDedup /\ [][NextOk]_vars

(***************************************************************************)
(* Properties of the map the latest call returned.                         *)
(***************************************************************************)
Called == last.map_type # "none"

RefsOf(elements) == {elements[i].ref : i \in 1..Len(elements)}

NodesOf(elements) == {elements[i].node : i \in 1..Len(elements)}

MarkedNodes == {n \in 1..Len(dom) : hasMarker(dom[n])}

\* the number a ref stands for
RefNum(ref) == CHOOSE k \in 0..Len(dom) : ToStr(k) = ref

\* the refs of the element lines of a text block
LineRefs(lines) ==
  {lines[i].src : i \in {k \in 1..Len(lines) : lines[k].kind = "element"}}

\* C1: the refs of the returned elements are pairwise distinct and are
\* exactly "0", ..., str(|elements|-1), also when a record was dropped.
RefsAreZeroToN ==
  LET es == last.elements
  IN /\ \A i, j \in 1..Len(es) : i # j => es[i].ref # es[j].ref
     /\ RefsOf(es) = {ToStr(k) : k \in 0..(Len(es) - 1)}

\* C2: after a call has returned, the nodes of the document that carry
\* data-agent-ref are exactly the nodes of the returned elements, as many as
\* there are elements, and each carries its element's ref.
MarkersMatchElements ==
  LET es == last.elements
  IN Called =>
       /\ MarkedNodes = NodesOf(es)
       /\ Cardinality(MarkedNodes) = Len(es)
       /\ \A i \in 1..Len(es) : getAttribute(dom[es[i].node], MarkerAttr) = es[i].ref

\* C3: no data-agent-ref written by a call before the latest one is left in
\* the document: every marker present was written by the latest call.
NoResidue == \A n \in 1..Len(dom) : writer[n] # EarlierCall

\* C4: a call that follows a call on the unchanged page returns a list of
\* the same length with the same (tag, text, childrenText, isInteractive,
\* dataAttributes) tuple at every position, whatever markers the first call
\* left behind (both collector scripts having returned).
Repeatable ==
  (last.prev.ok /\ last.scriptOk) => Tuples(last.elements) = last.prev.tuples

\* two calls in a row on a page with data-* attributes, the second of which
\* found the markers of the first still in the document
RepeatableWitness ==
  /\ last.prev.ok
  /\ last.scriptOk
  /\ last.stale
  /\ Len(last.elements) >= 2
  /\ \E i \in 1..Len(last.elements) : Len(last.elements[i].data_attributes) > 0

\* C5: the element at index i of the returned list carries ref str(i), and
\* every interactive element's ref is smaller than every content element's.
RefIsListIndex ==
  LET es == last.elements
  IN /\ \A i \in 1..Len(es) : es[i].ref = ToStr(i - 1)
     /\ \A i, j \in 1..Len(es) :
          (es[i].is_interactive /\ ~es[j].is_interactive)
            => RefNum(es[i].ref) < RefNum(es[j].ref)

\* C6 as the specification states it: every returned element has a line in
\* exactly one block, interactiveText for an interactive element and
\* contentText for any other.
ExactlyOneBlock ==
  LET es == last.elements
  IN \A i \in 1..Len(es) :
       IF es[i].is_interactive
       THEN /\ es[i].ref \in LineRefs(last.interactive_lines)
            /\ es[i].ref \notin LineRefs(last.content_lines)
       ELSE /\ es[i].ref \in LineRefs(last.content_lines)
            /\ es[i].ref \notin LineRefs(last.interactive_lines)

\* C6: no returned element has a line in the block of the other kind, and
\* every element line of a block is the line of a returned element of that
\* block's kind; an element may have no line at all.
AtMostOneBlock ==
  LET es == last.elements
      interactive == SelectSeq(es, LAMBDA e : e.is_interactive)
      content == SelectSeq(es, LAMBDA e : ~e.is_interactive)
  IN /\ LineRefs(last.interactive_lines) \subseteq RefsOf(interactive)
     /\ LineRefs(last.content_lines) \subseteq RefsOf(content)
     /\ RefsOf(interactive) \cap RefsOf(content) = {}
     /\ last.interactiveText = TextOf(last.interactive_lines)
     /\ last.contentText = TextOf(last.content_lines)

\* a map with a line in each block and an element that has no line
AtMostOneBlockWitness ==
  /\ LineRefs(last.interactive_lines) # {}
  /\ LineRefs(last.content_lines) # {}
  /\ \E i \in 1..Len(last.elements) :
       last.elements[i].ref \notin
         LineRefs(last.interactive_lines) \cup LineRefs(last.content_lines)

(***************************************************************************)
(* Properties of the deduplicator on the interactive elements of the map.  *)
(***************************************************************************)
InteractiveOf(elements) == SelectSeq(elements, LAMBDA e : e.is_interactive)

\* the selectors of two elements are nested one under the other
Nested(a, b) ==
  \/ is_nested(a.css_selector, b.css_selector)
  \/ is_nested(b.css_selector, a.css_selector)

\* C7: after deduplication no two surviving elements have the same effective
\* text and nested selectors, and of such a pair of one native-interactive
\* tag and one other tag in the input the native-interactive one survives.
DedupLeavesNoNestedPair ==
  LET I == InteractiveOf(last.elements)
      S == deduplicate_nested_elements(I)
  IN /\ \A i, j \in 1..Len(S) :
          i # j => ~(effective_text(S[i]) = effective_text(S[j]) /\ Nested(S[i], S[j]))
     /\ \A i, j \in 1..Len(I) :
          (/\ effective_text(I[i]) = effective_text(I[j])
           /\ Nested(I[i], I[j])
           /\ I[i].tag \in NativeInteractive
           /\ I[j].tag \notin NativeInteractive)
            => I[i].ref \in RefsOf(S)

\* the text of a link the specification protects
PaginationText(text) ==
  text # "" /\ (IsDigit(text) \/ Lower(text) \in {"next", "prev", "previous", "..."})

\* C8: a link whose text is a digit string or next, prev, previous, ... is
\* not removed by the subset-text rule although its text is a strict
\* substring of the effective text of an element it is nested under.
PaginationLinksSurvive ==
  LET I == InteractiveOf(last.elements)
  IN \A c \in 1..Len(I) :
       (/\ I[c].tag = "a"
        /\ PaginationText(Trim(I[c].text))
        /\ I[c].ref \notin groupRemoved(I)
        /\ \E p \in 1..Len(I) :
             /\ is_nested(I[p].css_selector, I[c].css_selector)
             /\ Contains(effective_text(I[p]), Trim(I[c].text))
             /\ effective_text(I[p]) # Trim(I[c].text))
         => I[c].ref \in RefsOf(deduplicate_nested_elements(I))

(***************************************************************************)
(* Pages with a long list, for the pattern compressor: the page appends    *)
(* rows to its list between calls.                                         *)
(***************************************************************************)
MinRows == 14
MaxRows == 16

RowKinds == {"same", "mixed", "links"}

\* row i of a list: identical <li class="row">x</li> rows, rows of which some
\* carry data-k (in the order A A A B B A B B), or links with their number
Row(kind, i) ==
  IF kind = "links"
  THEN Node("a", 2, ToStr(i), <<Attr("class", "row"), Attr("href", "/r")>>)
  ELSE IF kind = "mixed" /\ ((i - 1) % 8) \in {3, 4, 6, 7}
  THEN Node("li", 2, "x", <<Attr("class", "row"), Attr("data-k", "v")>>)
  ELSE Node("li", 2, "x", <<Attr("class", "row")>>)

\* <div onclick="f()"></div><ul id=kind>rows</ul>
ListPage(kind, n) ==
  <<Node("div", 0, "", <<Attr("onclick", "f()")>>),
    Node(IF kind = "links" THEN "nav" ELSE "ul", 0, "", <<Attr("id", kind)>>)>>
    \o [i \in 1..n |-> Row(kind, i)]

ListPages == {ListPage(kind, MinRows) : kind \in RowKinds}

RowsOf(d) == Len(d) - 2

\* the page appends the next row to its list
AppendRow ==
  /\ RowsOf(dom) < MaxRows
  /\ dom' = Append(dom, Row(getAttribute(dom[2], "id"), RowsOf(dom) + 1))
  /\ writer' = Append(writer, NoCall)
  /\ streak' = 0
  /\ UNCHANGED <<last, muts, others>>

NextList == GeneratePageMapOk \/ AppendRow

InitList == InitWith(ListPages)

SpecCompress == InitList /\ [][NextList]_vars

(***************************************************************************)
(* Properties of the two formatted blocks.                                 *)
(***************************************************************************)
ContentOf(elements) == SelectSeq(elements, LAMBDA e : ~e.is_interactive)

\* the elements the compressor of each block is given
InteractiveBucket == deduplicate_nested_elements(InteractiveOf(last.elements))

ContentBucket == ContentOf(last.elements)

ElementLinesOf(lines) == SelectSeq(lines, LAMBDA l : l.kind = "element")

MarkerLinesOf(lines) == SelectSeq(lines, LAMBDA l : l.kind = "marker")

\* a bucket of at least compression_threshold elements with one tag, one set
\* of data-* names and one canonical CSS pattern
IdenticalRun(E) ==
  /\ Len(E) >= compression_threshold
  /\ \A i \in 1..Len(E) :
       /\ signature(E[i]) = signature(E[1])
       /\ extract_css_pattern(E[i].css_selector) = extract_css_pattern(E[1].css_selector)

\* the block of such a bucket: the lines of its first show_first and last
\* show_last elements, and one marker for the rest that names the pattern
ShowsFirstAndLast(E, lines) ==
  LET shown == SubSeq(E, 1, show_first) \o SubSeq(E, Len(E) - show_last + 1, Len(E))
      elementLines == ElementLinesOf(lines)
      markers == MarkerLinesOf(lines)
  IN /\ Len(elementLines) = show_first + show_last
     /\ \A k \in 1..Len(elementLines) : elementLines[k].src = shown[k].ref
     /\ Len(markers) = 1
     /\ markers[1].hidden = Len(E) - (show_first + show_last)
     /\ last.map_type = "rich"
          => Contains(markers[1].rest, extract_css_pattern(E[1].css_selector))

\* C9: the block of a bucket of N >= 15 structurally identical elements has
\* exactly 12 element lines, those of the first 10 and the last 2 elements,
\* and exactly one compression marker, which accounts for the other N - 12
\* elements and names the canonical CSS pattern.
CompressionShowsTwelve ==
  /\ IdenticalRun(ContentBucket) => ShowsFirstAndLast(ContentBucket, last.content_lines)
  /\ IdenticalRun(InteractiveBucket)
       => ShowsFirstAndLast(InteractiveBucket, last.interactive_lines)

\* the rich and the lean lines of the elements E: as many lines, line by
\* line of the same kind, for the same element and with the same hidden
\* count; an element line differs in its prefix only
SameLines(rich, lean, E) ==
  /\ Len(rich) = Len(lean)
  /\ \A k \in 1..Len(rich) :
       /\ rich[k].kind = lean[k].kind
       /\ rich[k].src = lean[k].src
       /\ rich[k].hidden = lean[k].hidden
       /\ rich[k].kind = "element" =>
            /\ rich[k].rest = lean[k].rest
            /\ \E i \in 1..Len(E) :
                 /\ E[i].ref = rich[k].src
                 /\ rich[k].prefix = "CSS: " \o E[i].css_selector
                 /\ lean[k].prefix = "ref=\"" \o E[i].ref \o "\""
       /\ rich[k].kind = "marker" => (rich[k].prefix = "" /\ lean[k].prefix = "")

\* C10: the rich and the lean rendering of one element list have the same
\* number of lines in the same order; corresponding lines differ only in
\* the prefix or, for a compression marker, in its wording; the skipped
\* elements and the hidden counts are the same.
RichAndLeanAgree ==
  LET I == InteractiveOf(last.elements)
      C == ContentOf(last.elements)
  IN /\ SameLines(interactiveLines(I, "rich"), interactiveLines(I, "lean"), I)
     /\ SameLines(contentLines(C, "rich"), contentLines(C, "lean"), C)
     /\ Called => /\ last.interactive_lines = interactiveLines(I, last.map_type)
                  /\ last.content_lines = contentLines(C, last.map_type)

\* a map with element lines, a compression marker and an element without a
\* line
RichAndLeanAgreeWitness ==
  /\ Len(MarkerLinesOf(last.content_lines)) > 0
  /\ Len(ElementLinesOf(last.content_lines)) > 0
  /\ \E i \in 1..Len(last.elements) :
       last.elements[i].ref \notin
         LineRefs(last.interactive_lines) \cup LineRefs(last.content_lines)

  /\ \E i \in 1..Len(last.elements) :
       /\ last.elements[i].is_interactive
       /\ format_single_element(last.elements[i], last.map_type) = NoLine

(***************************************************************************)
(* Table rows.                                                             *)
(***************************************************************************)
\* S6: <table><tr><td data-label="Ticker">AAPL</td>
\* <td data-label="Price">199.00</td></tr></table>
PageQuote ==
  <<Node("table", 0, "", <<>>),
    Node("tr", 1, "", <<>>),
    Node("td", 2, "AAPL", <<Attr("data-label", "Ticker")>>),
    Node("td", 2, "199.00", <<Attr("data-label", "Price")>>)>>

\* S6 with an id on the row and a header cell without label
PageQuoteId ==
  <<Node("table", 0, "", <<>>),
    Node("tr", 1, "", <<Attr("id", "r1")>>),
    Node("th", 2, "AAPL", <<>>),
    Node("td", 2, "199.00", <<Attr("data-label", "Price")>>)>>

\* S6 with a data-* attribute on the row
PageQuoteData ==
  <<Node("table", 0, "", <<>>),
    Node("tr", 1, "", <<Attr("data-row", "7")>>),
    Node("td", 2, "AAPL", <<Attr("data-label", "Ticker")>>),
    Node("td", 2, "199.00", <<>>)>>

TablePages == {PageQuote, PageQuoteId, PageQuoteData}

InitTable == InitWith(TablePages)

SpecTable == InitTable /\ [][NextOk]_vars

\* the entry the ROW part shows for a cell
CellEntry(cell) ==
  IF cell.data_label # "" THEN cell.data_label \o "=" \o cell.text ELSE cell.text

\* the content elements that are table rows with at least one cell with text
FilledRows ==
  {i \in 1..Len(last.elements) :
     /\ ~last.elements[i].is_interactive
     /\ last.elements[i].tag = "tr"
     /\ \E c \in 1..Len(last.elements[i].table_cells) :
          last.elements[i].table_cells[c].text # ""}

\* C11: every content element with tag tr whose tableCells hold at least one
\* cell with text has a line in the content block that carries ROW: and one
\* label=text entry per labelled cell with text (the plain text for a cell
\* without label), whatever direct text, id, title or data-* the tr has.
RowsCarryRow ==
  \A i \in FilledRows :
    \E k \in 1..Len(last.content_lines) :
      /\ last.content_lines[k].kind = "element"
      /\ last.content_lines[k].src = last.elements[i].ref
      /\ Contains(last.content_lines[k].rest, " | ROW: ")
      /\ \A c \in 1..Len(last.elements[i].table_cells) :
           last.elements[i].table_cells[c].text # ""
             => Contains(last.content_lines[k].rest,
                         CellEntry(last.elements[i].table_cells[c]))

(***************************************************************************)
(* The action API of the browser: base_browser.py and                      *)
(* seleniumbase_browser.py.  A call's result is what its caller gets: a     *)
(* returned bool, str, dict or None, or a raised exception.                *)
(***************************************************************************)
ReturnBool(b) ==
  [kind |-> "bool", value |-> IF b THEN "True" ELSE "False", error |-> ""]

ReturnStr(v) == [kind |-> "str", value |-> v, error |-> ""]

ReturnNone == [kind |-> "None", value |-> "None", error |-> ""]

ReturnDict(changed, error) ==
  [kind |-> "dict", value |-> IF changed THEN "True" ELSE "False", error |-> error]

Raise(error) == [kind |-> "raise", value |-> "", error |-> error]

\* Python's truth value of an Optional[str]
Truthy(v) == v # Null /\ v # ""

SelectorMissing == "ValueError"

\* the handler's f-string reads a local the try block never assigned
UnboundLocal == "UnboundLocalError"

\* a resolver in which the selector shadows the ref
resolve_selector_first(selector, ref) ==
  IF ~Truthy(selector) /\ ~Truthy(ref) THEN Raise(SelectorMissing)
  ELSE IF Truthy(selector) THEN ReturnStr(selector)
  ELSE ReturnStr("[data-agent-ref=\"" \o ref \o "\"]")

\* BaseBrowser._resolve_selector
resolve_selector(selector, ref) ==
  IF ~Truthy(selector) /\ ~Truthy(ref) THEN Raise(SelectorMissing)
  ELSE IF Truthy(ref) THEN ReturnStr("[data-agent-ref=\"" \o ref \o "\"]")
  ELSE ReturnStr(selector)

IsXPath(resolved_selector) ==
  StartsWith(resolved_selector, "/") \/ StartsWith(resolved_selector, "(")

\* what the driver does with a call: whether the selector locates an element
\* (found), whether the driver carries the call out without raising (ok) and
\* whether the active element is something other than body (focused)
DriverEnvs == [found : BOOLEAN, ok : BOOLEAN, focused : BOOLEAN]

\* scroll_to_element
scroll_to_element(driver, selector, ref, env) ==
  IF ~driver THEN ReturnBool(FALSE)
  ELSE IF resolve_selector(selector, ref).kind = "raise" THEN Raise(UnboundLocal)
  ELSE IF ~env.ok THEN ReturnBool(FALSE)
  ELSE ReturnBool(env.found)

\* click_element: the result and the selector it remembers as last clicked
click_element(driver, last_clicked, selector, ref, env) ==
  LET r == resolve_selector(selector, ref)
  IN IF ~driver THEN [result |-> ReturnBool(FALSE), last_clicked |-> last_clicked]
     ELSE IF r.kind = "raise"
     THEN [result |-> Raise(UnboundLocal), last_clicked |-> last_clicked]
     ELSE IF env.found /\ env.ok
     THEN [result |-> ReturnBool(TRUE), last_clicked |-> r.value]
     ELSE [result |-> ReturnBool(FALSE), last_clicked |-> last_clicked]

\* wait_for_element
wait_for_element(driver, selector, ref, env) ==
  IF ~driver THEN ReturnBool(FALSE)
  ELSE IF resolve_selector(selector, ref).kind = "raise" THEN Raise(UnboundLocal)
  ELSE ReturnBool(env.found /\ env.ok)

\* type_text
type_text(driver, selector, ref, env) ==
  IF ~driver THEN ReturnBool(FALSE)
  ELSE IF resolve_selector(selector, ref).kind = "raise" THEN Raise(UnboundLocal)
  ELSE IF ~env.found THEN ReturnBool(FALSE)
  ELSE ReturnBool(env.ok)

\* check_element_exists
check_element_exists(driver, selector, ref, env) ==
  IF ~driver THEN ReturnBool(FALSE)
  ELSE IF resolve_selector(selector, ref).kind = "raise" THEN Raise(UnboundLocal)
  ELSE IF ~env.ok THEN ReturnBool(FALSE)
  ELSE ReturnBool(env.found)

\* wait_for_element_to_change: a dict with "changed" and, on failure, "error"
wait_for_element_to_change(driver, selector, ref, env) ==
  IF ~driver THEN ReturnDict(FALSE, "Browser not initialized")
  ELSE IF resolve_selector(selector, ref).kind = "raise"
  THEN ReturnDict(FALSE, "Error monitoring element")
  ELSE IF ~env.ok THEN ReturnDict(FALSE, "Error monitoring element")
  ELSE ReturnDict(env.found, "")

\* the except branch of press_keys' inner try: the WebDriver fallbacks
press_keys_fallback(selector, env) ==
  IF Truthy(selector) /\ env.found /\ env.ok THEN ReturnBool(TRUE)
  ELSE IF env.ok THEN ReturnBool(TRUE)
  ELSE ReturnBool(FALSE)

\* press_keys: selector and ref are optional
press_keys(driver, last_clicked, selector, ref, env) ==
  LET resolved_selector ==
        IF Truthy(selector) \/ Truthy(ref)
        THEN resolve_selector(selector, ref).value ELSE Null
  IN IF ~driver THEN ReturnBool(FALSE)
     ELSE IF resolved_selector # Null
     THEN IF IsXPath(resolved_selector)
          THEN IF env.found /\ env.ok THEN ReturnBool(TRUE) ELSE ReturnNone
          ELSE IF env.found /\ env.focused /\ env.ok THEN ReturnBool(TRUE)
          ELSE IF env.found /\ env.ok THEN ReturnBool(TRUE)
          ELSE press_keys_fallback(selector, env)
     ELSE IF Truthy(last_clicked) /\ env.found /\ env.focused /\ env.ok
     THEN ReturnBool(TRUE)
     ELSE IF env.ok THEN ReturnBool(TRUE)
     ELSE ReturnNone

\* the selectors and refs a caller passes: absent, empty, a CSS selector, an
\* XPath; absent, empty, the first ref of a map, another ref
Selectors == {Null, "", "#go", "//a"}

Refs == {Null, "", "0", "7"}

docvars == <<dom, writer, last, streak, muts>>

\* the browser after a call of op with these arguments
ActAfter(op, selector, ref, result, last_clicked) ==
  [driver |-> act.driver, last_clicked_selector |-> last_clicked, op |-> op,
   selector |-> selector, ref |-> ref, started |-> act.driver, result |-> result]

\* start(): the driver is created, or its creation raises and start returns False
StartBrowser ==
  /\ ~act.driver
  /\ \E created \in BOOLEAN :
       act' = [act EXCEPT !.driver = created, !.op = "start", !.started = FALSE,
                          !.selector = Null, !.ref = Null,
                          !.result = ReturnBool(created)]
  /\ UNCHANGED <<docvars, ts, calc>>

\* stop(): quits the driver and forgets it
StopBrowser ==
  /\ act.driver
  /\ act' = [act EXCEPT !.driver = FALSE, !.op = "stop", !.started = TRUE,
                        !.selector = Null, !.ref = Null,
                        !.result = ReturnBool(TRUE)]
  /\ UNCHANGED <<docvars, ts, calc>>

ResolveSelector ==
  /\ \E selector \in Selectors, ref \in Refs :
       act' = ActAfter("resolve", selector, ref, resolve_selector(selector, ref),
                       act.last_clicked_selector)
  /\ UNCHANGED <<docvars, ts, calc>>

ClickElement ==
  /\ \E selector \in Selectors, ref \in Refs, env \in DriverEnvs :
       \E r \in {click_element(act.driver, act.last_clicked_selector,
                               selector, ref, env)} :
         act' = ActAfter("click_element", selector, ref, r.result, r.last_clicked)
  /\ UNCHANGED <<docvars, ts, calc>>

TypeText ==
  /\ \E selector \in Selectors, ref \in Refs, env \in DriverEnvs :
       act' = ActAfter("type_text", selector, ref,
                       type_text(act.driver, selector, ref, env),
                       act.last_clicked_selector)
  /\ UNCHANGED <<docvars, ts, calc>>

PressKeys ==
  /\ \E selector \in Selectors, ref \in Refs, env \in DriverEnvs :
       act' = ActAfter("press_keys", selector, ref,
                       press_keys(act.driver, act.last_clicked_selector,
                                  selector, ref, env),
                       act.last_clicked_selector)
  /\ UNCHANGED <<docvars, ts, calc>>

ScrollToElement ==
  /\ \E selector \in Selectors, ref \in Refs, env \in DriverEnvs :
       act' = ActAfter("scroll_to_element", selector, ref,
                       scroll_to_element(act.driver, selector, ref, env),
                       act.last_clicked_selector)
  /\ UNCHANGED <<docvars, ts, calc>>

WaitForElement ==
  /\ \E selector \in Selectors, ref \in Refs, env \in DriverEnvs :
       act' = ActAfter("wait_for_element", selector, ref,
                       wait_for_element(act.driver, selector, ref, env),
                       act.last_clicked_selector)
  /\ UNCHANGED <<docvars, ts, calc>>

CheckElementExists ==
  /\ \E selector \in Selectors, ref \in Refs, env \in DriverEnvs :
       act' = ActAfter("check_element_exists", selector, ref,
                       check_element_exists(act.driver, selector, ref, env),
                       act.last_clicked_selector)
  /\ UNCHANGED <<docvars, ts, calc>>

WaitForElementToChange ==
  /\ \E selector \in Selectors, ref \in Refs, env \in DriverEnvs :
       act' = ActAfter("wait_for_element_to_change", selector, ref,
                       wait_for_element_to_change(act.driver, selector, ref, env),
                       act.last_clicked_selector)
  /\ UNCHANGED <<docvars, ts, calc>>

NextAction ==
  \/ StartBrowser \/ StopBrowser \/ ResolveSelector
  \/ ClickElement \/ TypeText \/ PressKeys \/ ScrollToElement
  \/ WaitForElement \/ CheckElementExists \/ WaitForElementToChange

InitAction == InitWith({PageSimple})

SpecAction == InitAction /\ [][NextAction]_vars

\* C12: resolve(selector, ref) gives [data-agent-ref="<ref>"] whenever a ref
\* is supplied, with or without a selector and also for ref "0"; it gives the
\* selector unchanged when only a selector is supplied; it fails with the
\* selector-missing error exactly when both are absent or empty.
ResolveContract ==
  act.op = "resolve" =>
    /\ Truthy(act.ref) =>
         act.result = ReturnStr("[data-agent-ref=\"" \o act.ref \o "\"]")
    /\ (Truthy(act.selector) /\ ~Truthy(act.ref)) =>
         act.result = ReturnStr(act.selector)
    /\ (act.result.kind = "raise") <=> (~Truthy(act.selector) /\ ~Truthy(act.ref))
    /\ act.result.kind = "raise" => act.result.error = SelectorMissing

\* resolve was called with ref "0" and a selector, and the ref won
ResolveContractWitness ==
  /\ act.op = "resolve"
  /\ act.ref = "0"
  /\ act.selector = "#go"
  /\ act.result = ReturnStr("[data-agent-ref=\"0\"]")

\* the operations that take a selector or a ref and must have one
SelectorOps ==
  {"click_element", "type_text", "scroll_to_element", "wait_for_element",
   "check_element_exists", "wait_for_element_to_change"}

\* C13: a call of click_element, type_text, scroll_to_element,
\* wait_for_element, check_element_exists or wait_for_element_to_change on a
\* started browser with neither selector nor ref fails with the resolver's
\* selector-missing error; it does not return a value.
SelectorMissingPropagates ==
  (/\ act.op \in SelectorOps
   /\ act.started
   /\ ~Truthy(act.selector)
   /\ ~Truthy(act.ref))
    => act.result = Raise(SelectorMissing)

\* the operations that report success as a boolean
BooleanOps ==
  {"click_element", "type_text", "press_keys", "scroll_to_element",
   "wait_for_element", "check_element_exists"}

\* C14: click_element, type_text, press_keys, scroll_to_element,
\* wait_for_element and check_element_exists never raise: whatever the
\* arguments and whatever the driver does they return a boolean, and on a
\* browser that is not started they return False.
BooleanOpsReturnBool ==
  act.op \in BooleanOps =>
    /\ act.result.kind = "bool"
    /\ ~act.started => act.result = ReturnBool(FALSE)

\* C15: when the collector script raises, generate_page_map on a started
\* browser returns an empty element list, an empty interactive text block
\* and an empty content text block.
ScriptFailureGivesEmptyMap ==
  (Called /\ ~last.scriptOk) =>
    /\ last.elements = <<>>
    /\ last.interactiveText = ""
    /\ last.contentText = ""

\* the collector script raised after it had marked elements of the page
ScriptFailureGivesEmptyMapWitness ==
  /\ Called
  /\ ~last.scriptOk
  /\ \E n \in 1..Len(dom) : writer[n] = ThisCall
  /\ last.elements = <<>>

(***************************************************************************)
(* The toolset: browser_toolset.py.  Browsers are numbered as they come    *)
(* into being; 0 stands for None and for a session id that is not a key of *)
(* _session_browsers.  The coroutines get_tools, close_session_browser and *)
(* close run as tasks that give way to each other at their await.          *)
(***************************************************************************)
MaxBrowsers == 3

MaxTasks == 2

Sessions == {"s1", "s2"}

\* a context without session
NoSession == ""

BrowserIds == 1..MaxBrowsers

Tasks == 1..MaxTasks

TaskIdle ==
  [op |-> "none", pc |-> "idle", sid |-> NoSession, browser |-> 0,
   result |-> NoResult]

\* _create_tools(browser): tools bound to browser b
Tools(b) == [kind |-> "tools", value |-> ToStr(b), error |-> ""]

\* BrowserToolset.__init__ with browser (1 when given, else 0) and
\* browser_options (given or not); made tells for each browser what it was
\* made for, closed on which browsers close() was invoked, dropped which
\* browsers close_session_browser and close have removed from the registry
Toolset(browser, browser_options) ==
  [constructed |-> TRUE,
   shared_browser |-> browser,
   browser_options |-> browser_options,
   session_browsers |-> [s \in Sessions |-> 0],
   fallback_browser |-> 0,
   made |-> [b \in BrowserIds |-> IF b = browser THEN "shared" ELSE "none"],
   closed |-> {},
   dropped |-> {},
   tasks |-> [t \in Tasks |-> TaskIdle]]

\* the browsers the toolset refers to
Held(toolset) ==
  ({toolset.shared_browser, toolset.fallback_browser}
     \cup {toolset.session_browsers[s] : s \in Sessions}) \ {0}

\* SeleniumBaseBrowser(options=...): the next browser
NewBrowser(toolset) ==
  CHOOSE b \in BrowserIds :
    /\ toolset.made[b] = "none"
    /\ \A c \in BrowserIds : toolset.made[c] = "none" => b <= c

CanCreate(toolset) == \E b \in BrowserIds : toolset.made[b] = "none"

\* get_tools with this context constructs a browser
Constructs(toolset, session_id) ==
  /\ toolset.browser_options
  /\ IF session_id # NoSession THEN toolset.session_browsers[session_id] = 0
     ELSE toolset.shared_browser = 0 /\ toolset.fallback_browser = 0

\* a task that has returned or raised
Finish(toolset, t, op, sid, b, result) ==
  [toolset EXCEPT !.tasks[t] =
     [op |-> op, pc |-> "done", sid |-> sid, browser |-> b, result |-> result]]

\* a task that waits at its await
Await(toolset, t, op, pc, sid, b) ==
  [toolset EXCEPT !.tasks[t] =
     [op |-> op, pc |-> pc, sid |-> sid, browser |-> b, result |-> NoResult]]

\* _get_session_browser up to its await, or to its end when the session has
\* a browser or there are no browser_options
get_session_browser(toolset, t, session_id) ==
  IF toolset.session_browsers[session_id] = 0
  THEN IF ~toolset.browser_options
       THEN Finish(toolset, t, "get_tools", session_id, 0, Raise("ValueError"))
       ELSE Await([toolset EXCEPT !.made[NewBrowser(toolset)] = session_id],
                  t, "get_tools", "initialize", session_id, NewBrowser(toolset))
  ELSE Finish(toolset, t, "get_tools", session_id,
              toolset.session_browsers[session_id],
              Tools(toolset.session_browsers[session_id]))

\* _get_fallback_browser up to its await or its end
get_fallback_browser(toolset, t) ==
  IF toolset.fallback_browser = 0
  THEN IF ~toolset.browser_options
       THEN Finish(toolset, t, "get_tools", NoSession, 0, Raise("ValueError"))
       ELSE Await([toolset EXCEPT !.made[NewBrowser(toolset)] = "fallback"],
                  t, "get_tools", "initialize", NoSession, NewBrowser(toolset))
  ELSE Finish(toolset, t, "get_tools", NoSession, toolset.fallback_browser,
              Tools(toolset.fallback_browser))

\* get_tools(readonly_context) up to its first await or its end
get_tools(toolset, t, session_id) ==
  IF session_id # NoSession THEN get_session_browser(toolset, t, session_id)
  ELSE IF toolset.shared_browser # 0
  THEN Finish(toolset, t, "get_tools", NoSession, toolset.shared_browser,
              Tools(toolset.shared_browser))
  ELSE get_fallback_browser(toolset, t)

\* get_tools after await browser.initialize(): the browser is stored and
\* the tools are made for what the registry holds
get_tools_resume(toolset, t) ==
  LET task == toolset.tasks[t]
      stored ==
        IF task.sid # NoSession
        THEN [toolset EXCEPT !.session_browsers[task.sid] = task.browser]
        ELSE [toolset EXCEPT !.fallback_browser = task.browser]
  IN Finish(stored, t, "get_tools", task.sid, task.browser, Tools(task.browser))

\* close_session_browser up to await browser.close()
close_session_browser(toolset, t, session_id) ==
  IF toolset.session_browsers[session_id] # 0
  THEN Await([toolset EXCEPT !.session_browsers[session_id] = 0,
                             !.dropped = @ \cup {toolset.session_browsers[session_id]},
                             !.closed = @ \cup {toolset.session_browsers[session_id]}],
             t, "close_session_browser", "closing", session_id,
             toolset.session_browsers[session_id])
  ELSE Finish(toolset, t, "close_session_browser", session_id, 0, ReturnNone)

\* close up to await asyncio.gather(...), or to its end when it holds no browser
close(toolset, t) ==
  IF Held(toolset) # {}
  THEN Await([toolset EXCEPT !.closed = @ \cup Held(toolset)],
             t, "close", "gather", NoSession, 0)
  ELSE Finish(toolset, t, "close", NoSession, 0, ReturnNone)

\* close after the gather: the references are cleared
close_resume(toolset, t) ==
  Finish([toolset EXCEPT !.session_browsers = [s \in Sessions |-> 0],
                         !.fallback_browser = 0,
                         !.dropped = @ \cup (Held(toolset) \ {toolset.shared_browser})],
         t, "close", NoSession, 0, ReturnNone)

Free(t) == ts.tasks[t].pc \in {"idle", "done"}

GetTools ==
  /\ \E t \in Tasks, ctx \in Sessions \cup {NoSession} :
       /\ Free(t)
       /\ Constructs(ts, ctx) => CanCreate(ts)
       /\ ts' = get_tools(ts, t, ctx)
  /\ UNCHANGED <<docvars, act, calc>>

GetToolsResume ==
  /\ \E t \in Tasks :
       /\ ts.tasks[t].op = "get_tools"
       /\ ts.tasks[t].pc = "initialize"
       /\ ts' = get_tools_resume(ts, t)
  /\ UNCHANGED <<docvars, act, calc>>

CloseSessionBrowser ==
  /\ \E t \in Tasks, session_id \in Sessions :
       /\ Free(t)
       /\ ts' = close_session_browser(ts, t, session_id)
  /\ UNCHANGED <<docvars, act, calc>>

CloseSessionBrowserResume ==
  /\ \E t \in Tasks :
       /\ ts.tasks[t].op = "close_session_browser"
       /\ ts.tasks[t].pc = "closing"
       /\ ts' = Finish(ts, t, "close_session_browser", ts.tasks[t].sid,
                       ts.tasks[t].browser, ReturnNone)
  /\ UNCHANGED <<docvars, act, calc>>

Close ==
  /\ \E t \in Tasks :
       /\ Free(t)
       /\ ts' = close(ts, t)
  /\ UNCHANGED <<docvars, act, calc>>

CloseResume ==
  /\ \E t \in Tasks :
       /\ ts.tasks[t].op = "close"
       /\ ts.tasks[t].pc = "gather"
       /\ ts' = close_resume(ts, t)
  /\ UNCHANGED <<docvars, act, calc>>

InitToolset ==
  /\ dom = PageSimple
  /\ writer = [n \in 1..Len(dom) |-> NoCall]
  /\ last = NoMap
  /\ streak = 0
  /\ muts = 0
  /\ act = NoAct
  /\ calc = NoCalc
  /\ ts \in {Toolset(browser, browser_options) :
               browser \in {0, 1}, browser_options \in BOOLEAN}

\* get_tools calls only
NextGetTools == GetTools \/ GetToolsResume

SpecGetTools == InitToolset /\ [][NextGetTools]_vars

NextToolset ==
  \/ GetTools \/ GetToolsResume
  \/ CloseSessionBrowser \/ CloseSessionBrowserResume
  \/ Close \/ CloseResume

SpecToolset == InitToolset /\ [][NextToolset]_vars

\* the get_tools calls that have returned tools
Returned(t) ==
  /\ ts.tasks[t].op = "get_tools"
  /\ ts.tasks[t].pc = "done"
  /\ ts.tasks[t].result.kind = "tools"

MadeFor(owner) == {b \in BrowserIds : ts.made[b] = owner}

\* the browsers a get_tools call is still initializing
Initializing ==
  {ts.tasks[t].browser : t \in {u \in Tasks : ts.tasks[u].pc = "initialize"}}

SharedBrowserServesAll ==
  ts.shared_browser # 0 =>
    /\ \A t \in Tasks :
         (ts.tasks[t].op = "get_tools" /\ ts.tasks[t].pc = "done")
           => ts.tasks[t].result = Tools(ts.shared_browser)
    /\ \A b \in BrowserIds : ts.made[b] # "none" => b = ts.shared_browser

\* C18: close() and close_session_browser drop no browser from the registry
\* unless close() was invoked on it; so once close() has completed, close()
\* was invoked on every browser the toolset held, whatever ran during its
\* await.
NoBrowserDroppedUnclosed == ts.dropped \subseteq ts.closed

(***************************************************************************)
(* Selectors of elements that lie deeper than the ancestor walk.           *)
(***************************************************************************)
\* two sections with the same inner structure:
\* <div><ul><li><p><b><span>x</span></b></p></li></ul></div>
\* <div><ul><li><p><b><span>y</span></b></p></li></ul></div>
PageDeep ==
  <<Node("div", 0, "", <<>>),
    Node("ul", 1, "", <<>>),
    Node("li", 2, "", <<>>),
    Node("p", 3, "", <<>>),
    Node("b", 4, "", <<>>),
    Node("span", 5, "x", <<>>),
    Node("div", 0, "", <<>>),
    Node("ul", 7, "", <<>>),
    Node("li", 8, "", <<>>),
    Node("p", 9, "", <<>>),
    Node("b", 10, "", <<>>),
    Node("span", 11, "y", <<>>)>>

\* the same two sections, three levels deep:
\* <div><p><span>x</span></p></div><div><p><span>y</span></p></div>
PageShallow ==
  <<Node("div", 0, "", <<>>),
    Node("p", 1, "", <<>>),
    Node("span", 2, "x", <<>>),
    Node("div", 0, "", <<>>),
    Node("p", 4, "", <<>>),
    Node("span", 5, "y", <<>>)>>

DeepPages == {PageDeep, PageShallow}

InitDeep == InitWith(DeepPages)

SpecDeep == InitDeep /\ [][NextOk]_vars

\* C19: within one map no two distinct elements have the same css_selector,
\* also when elements lie deeper than the five levels generateSelector walks.
SelectorsAreUnique ==
  \A i, j \in 1..Len(last.elements) :
    i # j => last.elements[i].css_selector # last.elements[j].css_selector

\* the pairs of the dedup input the rule is about: equal non-empty effective
\* text, nested selectors, i native-interactive and j not
NativePair(I, i, j) ==
  /\ effective_text(I[i]) # ""
  /\ effective_text(I[i]) = effective_text(I[j])
  /\ Nested(I[i], I[j])
  /\ I[i].tag \in NativeInteractive
  /\ I[j].tag \notin NativeInteractive

RECURSIVE Repeat(_, _)
Repeat(s, n) ==
  IF n = 0 THEN ""
  ELSE IF n % 2 = 0 THEN Repeat(s \o s, n \div 2)
  ELSE s \o Repeat(s, n - 1)

\* css selectors around the two lengths the penalty tests
QualitySelectors ==
  {"#go"} \cup {"#" \o Repeat("a", n - 1) : n \in {100, 101, 200, 201}}

QualityTags ==
  {"a", "button", "input", "select", "textarea", "label", "p", "span", "div",
   "h1", "li"}

\* the PageElement objects the score is computed for
QualityElements ==
  {[ref |-> "0", tag |-> tag, text |-> text, children_text |-> children_text,
    attributes |->
      [id |-> a[1], aria_label |-> a[3], placeholder |-> "", class |-> "",
       value |-> a[6], name |-> a[5], type |-> a[4], href |-> a[2],
       title |-> "", disabled |-> FALSE],
    is_interactive |-> TRUE, css_selector |-> css_selector, index |-> 0,
    data_attributes |-> <<>>, table_cells |-> <<>>, node |-> 1] :
     tag \in QualityTags, text \in {"", " ", "Go"},
     children_text \in {"", "Go"}, css_selector \in QualitySelectors,
     a \in [1..6 -> {"", "v"}]}

\* a function of the parser about to be applied to one argument
InitCalc(fn, inputs) ==
  /\ dom = PageSimple
  /\ writer = [n \in 1..Len(dom) |-> NoCall]
  /\ last = NoMap
  /\ streak = 0
  /\ muts = 0
  /\ act = NoAct
  /\ ts = NoToolset
  /\ calc \in {[fn |-> "none", pending |-> fn, in |-> x] : x \in inputs}

\* calc is waiting for fn to be applied
Pending(fn) == calc # NoCalc /\ calc.fn = "none" /\ calc.pending = fn

\* a call of _calculate_element_quality
CalculateElementQuality ==
  /\ Pending("quality")
  /\ calc' = [fn |-> "quality", in |-> calc.in,
              out |-> calculate_element_quality(calc.in)]
  /\ UNCHANGED <<docvars, act, ts>>

InitQuality == InitCalc("quality", QualityElements)

SpecQuality == InitQuality /\ [][CalculateElementQuality]_vars

\* C21: the quality score is 100 for a non-empty text, else 50 for a
\* non-empty childrenText; plus the tag bonus; plus 20, 15, 10, 8, 5, 5 for
\* id, href, aria-label, type, name, value; minus 5 for a selector longer
\* than 100 characters and minus 10 in total for one longer than 200.
QualityIsAsStated ==
  calc.fn = "quality" =>
    LET e == calc.in
        bonus == CASE e.tag = "a" -> 50 [] e.tag = "button" -> 45
                   [] e.tag = "input" -> 40 [] e.tag = "select" -> 35
                   [] e.tag = "textarea" -> 30 [] e.tag = "label" -> 25
                   [] e.tag = "p" -> 20 [] e.tag = "span" -> 15
                   [] e.tag = "div" -> 10 [] OTHER -> 5
        textScore == IF Trim(e.text) # "" THEN 100
                     ELSE IF Trim(e.children_text) # "" THEN 50 ELSE 0
        attrScore == (IF e.attributes.id # "" THEN 20 ELSE 0)
                     + (IF e.attributes.href # "" THEN 15 ELSE 0)
                     + (IF e.attributes.aria_label # "" THEN 10 ELSE 0)
                     + (IF e.attributes.type # "" THEN 8 ELSE 0)
                     + (IF e.attributes.name # "" THEN 5 ELSE 0)
                     + (IF e.attributes.value # "" THEN 5 ELSE 0)
        penalty == (IF Len(e.css_selector) > 100 THEN 5 ELSE 0)
                   + (IF Len(e.css_selector) > 200 THEN 5 ELSE 0)
    IN calc.out = textScore + bonus + attrScore - penalty

(***************************************************************************)
(* The repeating-sequence detector on its own: element lists that repeat   *)
(* a run of tags with a period, with at most one element out of step.      *)
(***************************************************************************)
MinElements == 13
MaxElements == 33
MaxPeriod == 11

PeriodTags ==
  <<"a", "span", "div", "p", "li", "b", "i", "u", "em", "td", "th", "dt">>

\* the i-th element of a list: a content element of this tag
ListElement(tag, i) ==
  [ref |-> ToStr(i - 1), tag |-> tag, text |-> "t", children_text |-> "",
   attributes |->
     [id |-> "", aria_label |-> "", placeholder |-> "", class |-> "",
      value |-> "", name |-> "", type |-> "", href |-> "", title |-> "",
      disabled |-> FALSE],
   is_interactive |-> FALSE,
   css_selector |-> "body > " \o tag \o ":nth-child(" \o ToStr(i) \o ")",
   index |-> i - 1, data_attributes |-> <<>>, table_cells |-> <<>>, node |-> i]

\* n elements whose tags repeat with this period; the element at brk, if
\* any, is a <strong> out of step
PeriodicList(n, period, brk) ==
  [i \in 1..n |->
     ListElement(IF i = brk THEN "strong" ELSE PeriodTags[((i - 1) % period) + 1], i)]

PeriodicLists ==
  {PeriodicList(n, period, brk) :
     n \in MinElements..MaxElements, period \in 1..MaxPeriod,
     brk \in {0, 8, 16}}

\* the length the detector goes on with, 0 standing for none: none below
\* the threshold, else `if best_sequence_length and best_repetition_count >= 3`
chosenLength(elements, threshold) ==
  IF Len(elements) < threshold THEN 0
  ELSE LET best == bestSequence(signaturesOf(elements), threshold)
       IN IF best[1] # 0 /\ best[2] >= 3 THEN best[1] ELSE 0

\* a call of _detect_repeating_sequences with the compressor's defaults
DetectRepeatingSequences ==
  /\ Pending("detect")
  /\ calc' = [fn |-> "detect", in |-> calc.in,
              chosen |-> chosenLength(calc.in, compression_threshold),
              out |-> detect_repeating_sequences(calc.in, compression_threshold,
                                                 show_first, show_last)]
  /\ UNCHANGED <<docvars, act, ts>>

InitDetect == InitCalc("detect", PeriodicLists)

SpecDetect == InitDetect /\ [][DetectRepeatingSequences]_vars

\* the lengths the claim has the detector accept
StatedLengths(signatures, threshold) ==
  {L \in 2..Min(10, Len(signatures) \div 3) :
     LET need == (threshold + L - 1) \div L
     IN maxChunkCount(signatures, L) >= (IF need > 3 THEN need ELSE 3)}

\* C22: the detector considers exactly the lengths L with
\* 2 <= L <= min(10, floor(n/3)), accepts L only if its most frequent
\* L-chunk occurs at least max(3, ceil(threshold/L)) times, and chooses the
\* accepted length with the highest count (none if no length is accepted).
DetectorChoosesAsStated ==
  calc.fn = "detect" =>
    LET signatures == signaturesOf(calc.in)
        accepted == StatedLengths(signatures, compression_threshold)
    IN IF accepted = {} THEN calc.chosen = 0
       ELSE /\ calc.chosen \in accepted
            /\ \A L \in accepted :
                 maxChunkCount(signatures, L)
                   <= maxChunkCount(signatures, calc.chosen)

(***************************************************************************)
(* The collector's loop on a long page: the document holds enough          *)
(* paragraphs to fill the content bucket, followed by a few more elements. *)
(* The loop is followed one iteration at a time from the point where the   *)
(* bucket is nearly full.                                                  *)
(***************************************************************************)
MaxTail == 3

TailKinds == {"p", "button", "span", "div"}

\* an element after the paragraphs: a paragraph, a button, a <span id> without
\* text (content by its id), or a <div onclick>
TailNode(kind) ==
  CASE kind = "p" -> Node("p", 0, "more", <<>>)
    [] kind = "button" -> Node("button", 0, "Go", <<>>)
    [] kind = "span" -> Node("span", 0, "", <<Attr("id", "s")>>)
    [] OTHER -> Node("div", 0, "Open", <<Attr("onclick", "f()")>>)

\* <p>t</p> c times, then the tail
LongPage(c, tail) == [i \in 1..c |-> Node("p", 0, "t", <<>>)] \o tail

\* the paragraphs of a long page after the loop has handled them: each
\* carries its marker
MarkedParagraphs ==
  [i \in 1..ContentCap |->
     setAttribute(Node("p", 0, "t", <<>>), MarkerAttr, ToStr(i - 1))]

\* the records the loop has collected from them; a paragraph's record does
\* not depend on the elements that follow the paragraphs
ParagraphRecords ==
  [i \in 1..ContentCap |-> elementData(MarkedParagraphs, i, i - 1, "t", "", FALSE)]

\* the loop after its first c iterations on LongPage(c, tail): every
\* paragraph is marked and in the content bucket
loopStateAfter(c, tail) ==
  [inter |-> <<>>,
   cont |-> SubSeq(ParagraphRecords, 1, c),
   d |-> SubSeq(MarkedParagraphs, 1, c) \o tail,
   marked |-> 1..c]

\* the loop about to handle element k, steps iterations after the start;
\* before holds the sizes of the buckets ahead of the latest iteration
LoopAt(st, k, steps, before) ==
  [fn |-> "collect", st |-> st, k |-> k, steps |-> steps, before |-> before]

InitCollect ==
  /\ dom = PageSimple
  /\ writer = [n \in 1..Len(dom) |-> NoCall]
  /\ last = NoMap
  /\ streak = 0
  /\ muts = 0
  /\ act = NoAct
  /\ ts = NoToolset
  /\ calc \in {LoopAt(loopStateAfter(c, tail), c + 1, 0, [inter |-> 0, cont |-> c]) :
                 c \in {ContentCap - 1, ContentCap},
                 tail \in [1..MaxTail -> {TailNode(kind) : kind \in TailKinds}]}

\* one iteration of the collector's for loop
CollectStep ==
  /\ calc # NoCalc /\ calc.fn = "collect"
  /\ calc.k <= Len(calc.st.d)
  /\ calc' = LoopAt(collectStep(calc.st, calc.k), calc.k + 1, calc.steps + 1,
                    [inter |-> Len(calc.st.inter), cont |-> Len(calc.st.cont)])
  /\ UNCHANGED <<docvars, act, ts>>

SpecCollect == InitCollect /\ [][CollectStep]_vars

\* the records collected from element n
CollectedFrom(st, n) ==
  {i \in 1..Len(st.inter \o st.cont) : (st.inter \o st.cont)[i].node = n}

\* C23: every candidate classified as interactive is kept however many
\* elements were collected before it; the content bucket never holds more
\* than 500 elements, and a content candidate met when it holds 500 is
\* dropped without a ref and without a data-agent-ref attribute.
ContentCappedInteractiveKept ==
  (calc.fn = "collect" /\ calc.steps > 0) =>
    LET st == calc.st
        n == calc.k - 1
    IN /\ Len(st.cont) <= 500
       /\ \A m \in (calc.k - calc.steps)..n :
            isInteractive(st.d, m) =>
              \E i \in 1..Len(st.inter) : st.inter[i].node = m
       /\ (~isInteractive(st.d, n) /\ calc.before.cont = 500) =>
            /\ CollectedFrom(st, n) = {}
            /\ ~hasMarker(st.d[n])
            /\ Len(st.cont) = 500

\* a paragraph is dropped at a full content bucket after an interactive
\* element was kept beyond the 500th element
ContentCappedInteractiveKeptWitness ==
  /\ calc.fn = "collect" /\ calc.steps > 1
  /\ calc.before.cont = 500
  /\ calc.before.inter > 0
  /\ calc.st.d[calc.k - 1].tag = "p"
  /\ CollectedFrom(calc.st, calc.k - 1) = {}

(***************************************************************************)
(* The formatter of one interactive element on its own.                    *)
(***************************************************************************)
\* interactive elements with every combination of the fields the formatter
\* reads; children_text is collected only for an element without text
FormatElements ==
  {[ref |-> "0", tag |-> "button", text |-> t[1], children_text |-> t[2],
    attributes |->
      [id |-> a[1], aria_label |-> a[2], placeholder |-> a[3], class |-> "",
       value |-> a[4], name |-> a[5], type |-> a[6], href |-> a[7],
       title |-> a[8], disabled |-> disabled],
    is_interactive |-> TRUE, css_selector |-> "body > button", index |-> 0,
    data_attributes |-> <<>>, table_cells |-> <<>>, node |-> 1] :
     t \in {<<"", "">>, <<"Go", "">>, <<"", "Go">>},
     a \in [1..8 -> {"", "v"}], disabled \in BOOLEAN}

\* a call of _format_single_element
FormatSingleElement ==
  /\ Pending("format")
  /\ calc' = [fn |-> "format", in |-> calc.in,
              out |-> format_single_element(calc.in.element_data, calc.in.map_type)]
  /\ UNCHANGED <<docvars, act, ts>>

InitFormat ==
  InitCalc("format",
           {[element_data |-> e, map_type |-> m] :
              e \in FormatElements, m \in {"lean", "rich"}})

SpecFormat == InitFormat /\ [][FormatSingleElement]_vars

\* C24: the line of an interactive element is skipped if and only if the
\* element has none of text, childrenText, aria-label, placeholder, id,
\* value, name, type, href, title and is not disabled; a disabled element
\* is rendered, with its disabled flag, whatever else it lacks.
SkippedIffNoDiscriminator ==
  calc.fn = "format" =>
    LET e == calc.in.element_data
        a == e.attributes
        bare == /\ e.text = "" /\ e.children_text = ""
                /\ a.aria_label = "" /\ a.placeholder = "" /\ a.id = ""
                /\ a.value = "" /\ a.name = "" /\ a.type = "" /\ a.href = ""
                /\ a.title = ""
    IN /\ (calc.out = NoLine) <=> (bare /\ ~a.disabled)
       /\ a.disabled =>
            /\ calc.out.kind = "element"
            /\ Contains(calc.out.rest, "disabled=")

(***************************************************************************)
(* wait_for_element_to_change followed poll by poll.  The clock counts     *)
(* check intervals of 500 ms; the page is the monitored element (present   *)
(* or not, its text, id and innerHTML) and the URL, and it changes while   *)
(* the call polls.                                                         *)
(***************************************************************************)
\* timeout: int = 15, in seconds
DefaultTimeout == 15

\* check intervals per second: check_interval = 0.5
IntervalsPerSecond == 2

\* the longest a slow script makes one iteration last, in check intervals
MaxIterationTime == 2

Timeouts == {1, DefaultTimeout}

PageTexts == {"one", "two"}
PageIds == {"", "list"}
PageHtmls == {"<li>one</li>", "<li>two</li>"}
PageUrls == {"/p1", "/p2"}

\* the page when the call is made
FirstPage(present) ==
  [present |-> present, text |-> "one", id |-> "list",
   innerHTML |-> "<li>one</li>", url |-> "/p1"]

\* what the script returns on this page: the error object without the
\* element, else its text, id, the first 200 characters of innerHTML, the url
scriptData(page) ==
  IF ~page.present
  THEN [error |-> TRUE, text |-> "", id |-> "", innerHTML |-> "", url |-> page.url]
  ELSE [error |-> FALSE, text |-> Trim(page.text), id |-> page.id,
        innerHTML |-> Prefix(page.innerHTML, 200), url |-> page.url]

NoData == [error |-> TRUE, text |-> "", id |-> "", innerHTML |-> "", url |-> ""]

\* the ways execute_script ends
ScriptEnds == {"raise", "None", "data"}

\* a call in progress: pc is where it stands, initial the snapshot, elapsed
\* time.time() - start_time in check intervals; polls counts the iterations
\* and polled is what the latest iteration got from its script
Wait(pc, timeout, page, initial, elapsed, element_disappeared, polls, polled, result) ==
  [op |-> "wait_for_element_to_change", driver |-> TRUE, pc |-> pc,
   timeout |-> timeout, page |-> page, initial |-> initial, elapsed |-> elapsed,
   element_disappeared |-> element_disappeared, polls |-> polls,
   polled |-> polled, result |-> result]

\* the start of the call up to the loop: the snapshot, or an early return
wait_start(w, script) ==
  LET initial_data == scriptData(w.page)
      return(error) == [w EXCEPT !.pc = "done", !.result = ReturnDict(FALSE, error)]
  IN IF script = "raise" THEN return("Error monitoring element")
     ELSE IF script = "None" THEN return("Failed to execute initial script")
     ELSE IF initial_data.error THEN return("Element not found")
     ELSE [w EXCEPT !.pc = "poll", !.initial = initial_data, !.elapsed = 0]

\* an iteration that takes a reappeared element for a changed one
wait_poll_reappeared(w, script, took) ==
  LET current_data == scriptData(w.page)
  IN IF script # "data" \/ current_data.error
     THEN [w EXCEPT !.element_disappeared = TRUE, !.elapsed = @ + took,
                    !.polls = @ + 1,
                    !.polled = IF script = "data" THEN current_data ELSE NoData]
     ELSE IF w.element_disappeared \/ current_data # w.initial
     THEN [w EXCEPT !.pc = "done", !.result = ReturnDict(TRUE, ""),
                    !.polls = @ + 1, !.polled = current_data]
     ELSE [w EXCEPT !.elapsed = @ + took, !.polls = @ + 1,
                    !.polled = current_data]

\* one iteration of the while loop, its script ending as script and the
\* iteration lasting took check intervals
wait_poll(w, script, took) ==
  LET current_data == scriptData(w.page)
      url_changed == current_data.url # w.initial.url
      text_changed == current_data.text # w.initial.text
      id_changed == current_data.id # w.initial.id
      html_changed == current_data.innerHTML # w.initial.innerHTML
  IN IF script # "data" \/ current_data.error
     THEN [w EXCEPT !.element_disappeared = TRUE, !.elapsed = @ + took,
                    !.polls = @ + 1,
                    !.polled = IF script = "data" THEN current_data ELSE NoData]
     ELSE IF \/ w.element_disappeared /\ (url_changed \/ text_changed \/ html_changed)
             \/ url_changed \/ text_changed \/ id_changed \/ html_changed
     THEN [w EXCEPT !.pc = "done", !.result = ReturnDict(TRUE, ""),
                    !.polls = @ + 1, !.polled = current_data]
     ELSE [w EXCEPT !.elapsed = @ + took, !.polls = @ + 1,
                    !.polled = current_data]

\* the loop test fails: the timeout return
wait_timeout(w) == [w EXCEPT !.pc = "done", !.result = ReturnDict(FALSE, "")]

\* the loop test `time.time() - start_time < timeout`
InBudget(w) == w.elapsed < w.timeout * IntervalsPerSecond

Waiting == act.op = "wait_for_element_to_change"

WaitStart ==
  /\ Waiting /\ act.pc = "call"
  /\ \E script \in ScriptEnds : act' = wait_start(act, script)
  /\ UNCHANGED <<docvars, ts, calc>>

WaitPoll ==
  /\ Waiting /\ act.pc = "poll" /\ InBudget(act)
  /\ \E script \in ScriptEnds, took \in 1..MaxIterationTime :
       act' = wait_poll(act, script, took)
  /\ UNCHANGED <<docvars, ts, calc>>

WaitTimesOut ==
  /\ Waiting /\ act.pc = "poll" /\ ~InBudget(act)
  /\ act' = wait_timeout(act)
  /\ UNCHANGED <<docvars, ts, calc>>

\* the page changes under the call: the element goes or comes back, or its
\* text, id or innerHTML, or the url, becomes another one
PageChanges ==
  /\ Waiting /\ act.pc = "poll"
  /\ \E page \in [present : BOOLEAN, text : PageTexts, id : PageIds,
                  innerHTML : PageHtmls, url : PageUrls] :
       /\ page # act.page
       /\ Cardinality({f \in {"present", "text", "id", "innerHTML", "url"} :
                         page[f] # act.page[f]}) = 1
       /\ act' = [act EXCEPT !.page = page]
  /\ UNCHANGED <<docvars, ts, calc>>

InitWait ==
  /\ dom = PageSimple
  /\ writer = [n \in 1..Len(dom) |-> NoCall]
  /\ last = NoMap
  /\ streak = 0
  /\ muts = 0
  /\ ts = NoToolset
  /\ calc = NoCalc
  /\ act \in {Wait("call", timeout, FirstPage(present), NoData, 0, FALSE, 0,
                   NoData, NoResult) :
                timeout \in Timeouts, present \in BOOLEAN}

NextWait == WaitStart \/ WaitPoll \/ WaitTimesOut \/ PageChanges

\* the call runs on: a thread that polls is not held up for ever
SpecWait ==
  InitWait /\ [][NextWait]_vars
    /\ WF_vars(WaitStart) /\ WF_vars(WaitPoll) /\ WF_vars(WaitTimesOut)

\* the latest poll found the element and a text, id, innerHTML prefix or
\* url other than the snapshot's
PolledDiffers ==
  /\ act.polls > 0
  /\ ~act.polled.error
  /\ \/ act.polled.text # act.initial.text
     \/ act.polled.id # act.initial.id
     \/ act.polled.innerHTML # act.initial.innerHTML
     \/ act.polled.url # act.initial.url

\* what holds of a call at any moment
WaitResultIsSound ==
  Waiting =>
    /\ act.polls <= act.timeout * IntervalsPerSecond
    /\ (act.pc = "done" /\ act.result.value = "True") => PolledDiffers
    /\ (act.pc = "done" /\ ~PolledDiffers) => act.result.value = "False"
    /\ (act.pc = "done" /\ act.initial = NoData) =>
          /\ act.result.value = "False"
          /\ act.result.error # ""
          /\ act.polls = 0

\* C25: wait_for_element_to_change returns within its polling budget (at
\* most timeout / 500 ms polls, and it does return); it reports changed=True
\* only after a poll that found the element with a text, id, innerHTML
\* prefix or url other than the snapshot's; a poll that misses the element
\* or whose script fails yields no changed=True; an element missing at the
\* start yields changed=False with an error and no poll; and without a
\* differing poll before the timeout the result is changed=False.
WaitReturnsAsStated ==
  /\ [](WaitResultIsSound)
  /\ <>(Waiting /\ act.pc = "done")

\* a call that timed out after the element had disappeared and come back
\* unchanged, and had polled its whole budget
WaitReturnsAsStatedWitness ==
  /\ Waiting /\ act.pc = "done"
  /\ act.timeout = DefaultTimeout
  /\ act.polls = DefaultTimeout * IntervalsPerSecond
  /\ act.element_disappeared
  /\ ~act.polled.error
  /\ act.result = ReturnDict(FALSE, "")

(***************************************************************************)
(* The compressor and the formatter's loop on their own, on the periodic   *)
(* lists and on lists of rows that share one css pattern.                  *)
(***************************************************************************)
MaxBlock == 4

\* n rows <li> under one parent, in blocks of block rows that carry
\* data-odd and data-even in turn: one css pattern, two signatures
BlockList(n, block) ==
  [i \in 1..n |->
     [ListElement("li", i) EXCEPT
        !.data_attributes =
          <<Attr(IF ((i - 1) \div block) % 2 = 0 THEN "data-odd" ELSE "data-even",
                 "1")>>]]

BlockLists ==
  {BlockList(n, block) : n \in MinElements..MaxElements, block \in 1..MaxBlock}

\* a call of _compress_repetitive_patterns with its defaults, and of the
\* formatter's loop over the items
CompressRepetitivePatterns ==
  /\ Pending("compress")
  /\ calc' = [fn |-> "compress", in |-> calc.in,
              items |-> compress_repetitive_patterns(calc.in.elements),
              lines |-> contentLines(calc.in.elements, calc.in.map_type)]
  /\ UNCHANGED <<docvars, act, ts>>

InitCompressFn ==
  InitCalc("compress",
           {[elements |-> E, map_type |-> m] :
              E \in PeriodicLists \cup BlockLists, m \in {"lean", "rich"}})

SpecCompressFn == InitCompressFn /\ [][CompressRepetitivePatterns]_vars

\* the number of input elements an item stands for
ItemSize(item) == IF item.type = "element" THEN 1 ELSE item.count

\* the 1-based input position of the first element item k stands for
RECURSIVE ItemStart(_, _)
ItemStart(items, k) ==
  IF k = 1 THEN 1 ELSE ItemStart(items, k - 1) + ItemSize(items[k - 1])

\* the input positions of the elements a compressed item hides
Omitted(items, k) ==
  (ItemStart(items, k)..(ItemStart(items, k) + items[k].count - 1))
    \ {items[k].shown[j].index + 1 : j \in 1..Len(items[k].shown)}

\* the compressed items that hide something, in order
HidingItems(items) ==
  SelectSeq([k \in 1..Len(items) |-> k],
            LAMBDA k : items[k].type = "compressed" /\ Omitted(items, k) # {})

\* the positions of the notices among the lines, in order
NoticePositions(lines) ==
  SelectSeq([p \in 1..Len(lines) |-> p], LAMBDA p : lines[p].kind = "marker")

\* C26: with the default parameters the items partition the input in order:
\* each input element is covered by exactly one item, the groups' counts and
\* the single items add up to the input length, a group's shown list is a
\* duplicate-free subsequence of the run it covers, and the formatter puts
\* a group's notice at the position of its first omitted element.
ItemsPartitionInput ==
  calc.fn = "compress" =>
    LET E == calc.in.elements
        items == calc.items
        lines == calc.lines
        hiding == HidingItems(items)
        notices == NoticePositions(lines)
    IN /\ Len(items) > 0
       /\ ItemStart(items, Len(items)) + ItemSize(items[Len(items)]) = Len(E) + 1
       /\ \A k \in 1..Len(items) :
            LET start == ItemStart(items, k)
            IN IF items[k].type = "element" THEN items[k].element = E[start]
               ELSE LET shown == items[k].shown
                    IN /\ items[k].count >= 1
                       /\ \A j \in 1..Len(shown) :
                            /\ shown[j].index + 1 \in start..(start + items[k].count - 1)
                            /\ shown[j] = E[shown[j].index + 1]
                            /\ j > 1 => shown[j - 1].index < shown[j].index
       /\ Len(notices) = Len(hiding)
       /\ \A m \in 1..Len(hiding) :
            LET first == CHOOSE o \in Omitted(items, hiding[m]) :
                           \A other \in Omitted(items, hiding[m]) : o <= other
            IN /\ lines[notices[m]].hidden = Cardinality(Omitted(items, hiding[m]))
               /\ \A p \in 1..Len(lines) :
                    lines[p].kind = "element" =>
                      (p < notices[m]
                         <=> (CHOOSE i \in 1..Len(E) : E[i].ref = lines[p].src) < first)

\* a list compressed into a group of repeating sequences that hides some
\* elements, next to elements shown singly
ItemsPartitionInputWitness ==
  /\ calc.fn = "compress"
  /\ \E k \in 1..Len(calc.items) :
       /\ calc.items[k].type = "compressed"
       /\ calc.items[k].count > Len(calc.items[k].shown)
  /\ \E k \in 1..Len(calc.items) : calc.items[k].type = "element"

(***************************************************************************)
(* Pages with images.                                                      *)
(***************************************************************************)
\* <img src="/logo.png" alt="Logo"><p>Welcome</p>
PageLogo ==
  <<Node("img", 0, "", <<Attr("src", "/logo.png"), Attr("alt", "Logo")>>),
    Node("p", 0, "Welcome", <<>>)>>

\* <a href="/"><img alt="Home"></a><img id="hero" src="/h.png">
PageHome ==
  <<Node("a", 0, "", <<Attr("href", "/")>>),
    Node("img", 1, "", <<Attr("alt", "Home")>>),
    Node("img", 0, "", <<Attr("id", "hero"), Attr("src", "/h.png")>>)>>

\* <img alt="Open" onclick="open()"><span>Gallery</span>
PageGallery ==
  <<Node("img", 0, "", <<Attr("alt", "Open"), Attr("onclick", "open()")>>),
    Node("span", 0, "Gallery", <<>>)>>

ImagePages == {PageLogo, PageHome, PageGallery}

InitImage == InitWith(ImagePages)

SpecImage == InitImage /\ [][NextOk]_vars

\* C27: a visible img passes the tag gate and is kept in the map, as a
\* content element unless it is classified interactive, and without direct
\* text its text is its alt attribute.
ImagesAreKept ==
  (Called /\ streak >= 1) =>
    \A n \in 1..Len(dom) :
      (dom[n].tag = "img" /\ isElementVisible(dom, n)) =>
        \E i \in 1..Len(last.elements) :
          /\ last.elements[i].node = n
          /\ last.elements[i].is_interactive = isInteractive(dom, n)
          /\ getDirectTextOnly(dom[n]) = ""
               => last.elements[i].text = OrEmpty(getAttribute(dom[n], "alt"))

(***************************************************************************)
(* The deduplicator on its own, on the interactive elements of every small *)
(* tree of links and clickable containers.                                 *)
(***************************************************************************)
MaxTreeNodes == 3

TreeTexts == {"", "1", "Page 1"}

\* <a href="/x">text</a> or <div onclick="f()">text</div> under parent
TreeNode(tag, parent, text) ==
  Node(tag, parent, text,
       IF tag = "a" THEN <<Attr("href", "/x")>> ELSE <<Attr("onclick", "f()")>>)

\* the documents of n such elements, each under <body> or an earlier element
Trees(n) ==
  {d \in [1..n -> {TreeNode(tag, parent, text) :
                     tag \in {"a", "div"}, parent \in 0..(n - 1),
                     text \in TreeTexts}] :
     \A k \in 1..n : d[k].parent < k}

\* the interactive elements the collector hands the formatter for a document
interactiveElementsOf(d) ==
  SelectSeq(build_unified_element_map(collect_and_process_elements(d, TRUE, 0).data),
            IsInteractiveElem)

\* a call of _deduplicate_nested_elements, and a call on what it returned
DeduplicateNestedElements ==
  /\ Pending("dedup")
  /\ \E I \in {interactiveElementsOf(calc.in)} :
       \E D \in {deduplicate_nested_elements(I)} :
          calc' = [fn |-> "dedup", in |-> calc.in, elements |-> I, out |-> D,
                   again |-> deduplicate_nested_elements(D)]
  /\ UNCHANGED <<docvars, act, ts>>

InitDedupFn ==
  InitCalc("dedup", UNION {Trees(n) : n \in 2..MaxTreeNodes})

SpecDedupFn == InitDedupFn /\ [][DeduplicateNestedElements]_vars

\* C28: deduplication only removes: its output is a subsequence of its
\* input in the original order, and applying it to its own output removes
\* nothing more.
DedupOnlyRemovesOnce ==
  calc.fn = "dedup" =>
    LET I == calc.elements
        D == calc.out
        at(e) == CHOOSE i \in 1..Len(I) : I[i].ref = e.ref
    IN /\ \A j \in 1..Len(D) : \E i \in 1..Len(I) : I[i] = D[j]
       /\ \A j \in 2..Len(D) : at(D[j - 1]) < at(D[j])
       /\ calc.again = D

\* a call that removed an element and kept two, the later one with the
\* shorter selector
DedupOnlyRemovesOnceWitness ==
  /\ calc.fn = "dedup"
  /\ Len(calc.out) < Len(calc.elements)
  /\ \E j \in 2..Len(calc.out) :
       Len(calc.out[j].css_selector) < Len(calc.out[j - 1].css_selector)

(***************************************************************************)
(* The life cycle of one browser: start(), stop() and restart() with the   *)
(* failures the driver can raise in each of them.                          *)
(***************************************************************************)
MaxLaunches == 6

UserAgents == {"", "Mozilla/5.0"}

\* what the driver does during a call: whether Driver(**kwargs), the
\* user-agent script, get('about:blank') and quit() go through or raise
DriverEnds == [create : BOOLEAN, script : BOOLEAN, get : BOOLEAN, quit : BOOLEAN]

\* start(): True with the driver it already holds; otherwise creates the
\* driver, sets the user agent if one is configured and opens about:blank;
\* any exception is logged and False returned, the driver staying as it was
\* at the raise
start(driver, user_agent, env) ==
  IF driver THEN [driver |-> TRUE, launched |-> 0, value |-> TRUE]
  ELSE IF ~env.create THEN [driver |-> FALSE, launched |-> 0, value |-> FALSE]
  ELSE IF (user_agent # "" /\ ~env.script) \/ ~env.get
         THEN [driver |-> TRUE, launched |-> 1, value |-> FALSE]
  ELSE [driver |-> TRUE, launched |-> 1, value |-> TRUE]

\* stop(): quits and forgets the driver it holds; False without a driver and
\* when quit() raises, the driver then being kept
stop(driver, env) ==
  IF driver
    THEN IF env.quit THEN [driver |-> FALSE, value |-> TRUE]
         ELSE [driver |-> TRUE, value |-> FALSE]
  ELSE [driver |-> FALSE, value |-> FALSE]

\* restart(): awaits stop() if a driver is held, awaits start(), returns True;
\* neither call raises and neither return value is looked at
restart(driver, user_agent, env) ==
  LET stopped == stop(driver, env)
      started == start(IF driver THEN stopped.driver ELSE driver, user_agent, env)
  IN [driver |-> started.driver, launched |-> started.launched,
      stop_result |-> IF driver THEN ReturnBool(stopped.value) ELSE NoResult,
      start_result |-> ReturnBool(started.value),
      value |-> TRUE]

\* one browser, its configuration, the drivers it has launched so far and
\* its last call
Browser(driver, user_agent, launched, op, stop_result, start_result, result) ==
  [driver |-> driver, user_agent |-> user_agent, launched |-> launched,
   op |-> op, stop_result |-> stop_result, start_result |-> start_result,
   result |-> result]

Start ==
  /\ act.launched < MaxLaunches
  /\ \E env \in DriverEnds :
       \E r \in {start(act.driver, act.user_agent, env)} :
          act' = Browser(r.driver, act.user_agent, act.launched + r.launched,
                         "start", NoResult, ReturnBool(r.value),
                         ReturnBool(r.value))
  /\ UNCHANGED <<docvars, ts, calc>>

Stop ==
  /\ \E env \in DriverEnds :
       \E r \in {stop(act.driver, env)} :
          act' = Browser(r.driver, act.user_agent, act.launched, "stop",
                         ReturnBool(r.value), NoResult, ReturnBool(r.value))
  /\ UNCHANGED <<docvars, ts, calc>>

Restart ==
  /\ act.launched < MaxLaunches
  /\ \E env \in DriverEnds :
       \E r \in {restart(act.driver, act.user_agent, env)} :
          act' = Browser(r.driver, act.user_agent, act.launched + r.launched,
                         "restart", r.stop_result, r.start_result,
                         ReturnBool(r.value))
  /\ UNCHANGED <<docvars, ts, calc>>

InitRestart ==
  /\ dom = PageSimple
  /\ writer = [n \in 1..Len(dom) |-> NoCall]
  /\ last = NoMap
  /\ streak = 0
  /\ muts = 0
  /\ \E user_agent \in UserAgents :
       act = Browser(FALSE, user_agent, 0, "none", NoResult, NoResult, NoResult)
  /\ ts = NoToolset
  /\ calc = NoCalc

NextRestart == Start \/ Stop \/ Restart

SpecRestart == InitRestart /\ [][NextRestart]_vars

\* C29: restart() returns True only if a driver is held when it returns, and
\* returns False if the stop or the start it made failed.
RestartReportsFailure ==
  act.op = "restart" =>
    /\ act.result = ReturnBool(TRUE) => act.driver
    /\ (act.stop_result = ReturnBool(FALSE) \/ act.start_result = ReturnBool(FALSE))
         => act.result = ReturnBool(FALSE)

(***************************************************************************)
(* The toolset together with the browsers it creates: what initialize()    *)
(* leaves in each browser, and what get_tools stores.                      *)
(***************************************************************************)
\* the browsers as they are constructed: no driver, start() not called
NoDrivers ==
  [driver |-> [b \in BrowserIds |-> FALSE],
   start_result |-> [b \in BrowserIds |-> NoResult]]

\* get_tools from await browser.initialize() on: initialize() awaits start()
\* and returns None whatever start() returned; then the browser is stored
\* and the tools are made
GetToolsInitialize ==
  /\ \E t \in Tasks, env \in DriverEnds, user_agent \in UserAgents :
       /\ ts.tasks[t].op = "get_tools"
       /\ ts.tasks[t].pc = "initialize"
       /\ \E b \in {ts.tasks[t].browser} :
            \E r \in {start(act.driver[b], user_agent, env)} :
               act' = [act EXCEPT !.driver[b] = r.driver,
                                  !.start_result[b] = ReturnBool(r.value)]
       /\ ts' = get_tools_resume(ts, t)
  /\ UNCHANGED <<docvars, calc>>

InitStartup ==
  /\ dom = PageSimple
  /\ writer = [n \in 1..Len(dom) |-> NoCall]
  /\ last = NoMap
  /\ streak = 0
  /\ muts = 0
  /\ act = NoDrivers
  /\ calc = NoCalc
  /\ ts \in {Toolset(browser, browser_options) :
               browser \in {0, 1}, browser_options \in BOOLEAN}

NextStartup == GetTools \/ GetToolsInitialize

SpecStartup == InitStartup /\ [][NextStartup]_vars

\* the browsers of the session registry and the fallback browser
Registered(toolset) == Held(toolset) \ {toolset.shared_browser}

\* C30: every browser in the session registry, and the fallback browser, has
\* been started successfully and holds a driver; tools that get_tools made
\* from a browser it created are bound to such a browser.
RegisteredBrowsersStarted ==
  /\ \A b \in Registered(ts) :
       act.driver[b] /\ act.start_result[b] = ReturnBool(TRUE)
  /\ \A t \in Tasks :
       (Returned(t) /\ ts.tasks[t].browser # ts.shared_browser)
         => act.driver[ts.tasks[t].browser]

====
